---------------------------- MODULE Spec2Model ----------------------------
(***************************************************************************)
(* TOON codec: serialize (encode.ts) and deserialize (decode.ts).          *)
(*                                                                         *)
(* Texts are sequences of one-character strings, indexed from 0 as in the  *)
(* source (CharAt(s, i) is s[i]).  JSON values are tagged records:         *)
(*   [t |-> "null"]  [t |-> "bool", b]  [t |-> "num", m, e] (m * 10^e)     *)
(*   [t |-> "str", s]  [t |-> "arr", a]  [t |-> "obj", o] (o: <<[k, v]>>)  *)
(* Host-only values: [t |-> "undef"], [t |-> "negzero"],                   *)
(* [t |-> "nonfinite"].  A thrown exception is [t |-> "err", kind].        *)
(***************************************************************************)
EXTENDS Integers, Sequences, FiniteSets, TLC

VARIABLES pc, val, opt, txt, scan, res, cursor

vars == <<pc, val, opt, txt, scan, res, cursor>>

(***************************************************************************)
(* constants.ts                                                            *)
(***************************************************************************)
LIST_ITEM_MARKER == <<"-">>
LIST_ITEM_PREFIX == <<"-", " ">>
COMMA == ","
COLON == ":"
SPACE == " "
PIPE == "|"
HASH == "#"
OPEN_BRACKET == "["
CLOSE_BRACKET == "]"
OPEN_BRACE == "{"
CLOSE_BRACE == "}"
NULL_LITERAL == <<"n", "u", "l", "l">>
TRUE_LITERAL == <<"t", "r", "u", "e">>
FALSE_LITERAL == <<"f", "a", "l", "s", "e">>
BACKSLASH == "\\"
DOUBLE_QUOTE == "\""
NEWLINE == "\n"
CARRIAGE_RETURN == "\r"
TAB == "\t"
DEFAULT_DELIMITER == COMMA
DEFAULT_INDENT_SIZE == 2

(***************************************************************************)
(* Exceptions and values                                                   *)
(***************************************************************************)
Err(kind) == [t |-> "err", kind |-> kind]
IsErr(x) == x.t = "err"

\* A string-valued operation that throws returns this one-element marker,
\* which no text contains (every element of a text is a single character).
ErrText == <<"#SyntaxError">>
IsErrText(s) == Len(s) = 1 /\ s[1] = "#SyntaxError"

Null == [t |-> "null"]
Bool(b) == [t |-> "bool", b |-> b]
Num(m, e) == [t |-> "num", m |-> m, e |-> e]
Str(s) == [t |-> "str", s |-> s]
Arr(a) == [t |-> "arr", a |-> a]
Obj(o) == [t |-> "obj", o |-> o]
Undefined == [t |-> "undef"]

(***************************************************************************)
(* JavaScript string primitives                                            *)
(***************************************************************************)
Digits == <<"0", "1", "2", "3", "4", "5", "6", "7", "8", "9">>
IsDigit(c) == \E i \in 1..10 : Digits[i] = c
DigitVal(c) == (CHOOSE i \in 1..10 : Digits[i] = c) - 1
Letters == {"a","b","c","d","e","f","g","h","i","j","k","l","m","n","o","p",
            "q","r","s","t","u","v","w","x","y","z",
            "A","B","C","D","E","F","G","H","I","J","K","L","M","N","O","P",
            "Q","R","S","T","U","V","W","X","Y","Z"}
\* \w of a JavaScript regular expression
IsWordChar(c) == c \in Letters \/ IsDigit(c) \/ c = "_"
\* the white space String.prototype.trim removes
IsWhiteSpace(c) == c \in {" ", "\t", "\n", "\r"}

Min(a, b) == IF a < b THEN a ELSE b
Max(a, b) == IF a > b THEN a ELSE b

\* the element of a one-element set: The({e : x \in {v}}) is e where x is v
The(S) == CHOOSE x \in S : TRUE

CharAt(s, i) == s[i + 1]
\* s.slice(a, b) for 0 <= a
Slice(s, a, b) == SubSeq(s, a + 1, Min(b, Len(s)))
SliceFrom(s, a) == SubSeq(s, a + 1, Len(s))

\* the positions of s that hold no white space
Inked(s) == {i \in 1..Len(s) : ~IsWhiteSpace(s[i])}

TrimStart(s) ==
  IF Inked(s) = {} THEN <<>>
  ELSE SubSeq(s, CHOOSE i \in Inked(s) : \A j \in Inked(s) : i <= j, Len(s))

TrimEnd(s) ==
  IF Inked(s) = {} THEN <<>>
  ELSE SubSeq(s, 1, CHOOSE i \in Inked(s) : \A j \in Inked(s) : i >= j)

Trim(s) == TrimEnd(TrimStart(s))

StartsWith(s, p) == Len(s) >= Len(p) /\ SubSeq(s, 1, Len(p)) = p
EndsWithChar(s, c) == s # <<>> /\ s[Len(s)] = c
Includes(s, c) == \E i \in 1..Len(s) : s[i] = c

\* s.indexOf(c, from): the 0-based index of the first c at or after from, or -1
IndexOf(s, c, from) ==
  LET hits == {i \in Max(from, 0)..(Len(s) - 1) : CharAt(s, i) = c}
  IN IF hits = {} THEN -1 ELSE CHOOSE i \in hits : \A j \in hits : i <= j

RECURSIVE Join(_, _)
Join(parts, sep) ==
  IF parts = <<>> THEN <<>>
  ELSE IF Len(parts) = 1 THEN parts[1]
  ELSE parts[1] \o sep \o Join(Tail(parts), sep)

\* s.split(c): never empty, '' splits to ['']
Split(s, c) ==
  LET cuts == {i \in 1..Len(s) : s[i] = c}
      n == Cardinality(cuts)
      cut(k) == IF k = 0 THEN 0
                ELSE IF k = n + 1 THEN Len(s) + 1
                ELSE CHOOSE i \in cuts : Cardinality({j \in cuts : j < i}) = k - 1
  IN [k \in 1..(n + 1) |-> SubSeq(s, cut(k - 1) + 1, cut(k) - 1)]

\* s.replace(/c/g, rep)
RECURSIVE ReplaceAll(_, _, _)
ReplaceAll(s, c, rep) ==
  IF s = <<>> THEN <<>>
  ELSE (IF Head(s) = c THEN rep ELSE <<Head(s)>>) \o ReplaceAll(Tail(s), c, rep)

RECURSIVE Repeat(_, _)
Repeat(s, n) == IF n <= 0 THEN <<>> ELSE s \o Repeat(s, n - 1)

(***************************************************************************)
(* string-utils (decode.ts 767-879)                                        *)
(***************************************************************************)
\* the escaping with the quotes replaced before the backslashes
quotesEscapedFirst(value) ==
  ReplaceAll(ReplaceAll(ReplaceAll(ReplaceAll(ReplaceAll(value,
    DOUBLE_QUOTE, <<BACKSLASH, DOUBLE_QUOTE>>),
    BACKSLASH, <<BACKSLASH, BACKSLASH>>),
    NEWLINE, <<BACKSLASH, "n">>),
    CARRIAGE_RETURN, <<BACKSLASH, "r">>),
    TAB, <<BACKSLASH, "t">>)

escapeString(value) ==
  ReplaceAll(ReplaceAll(ReplaceAll(ReplaceAll(ReplaceAll(value,
    BACKSLASH, <<BACKSLASH, BACKSLASH>>),
    DOUBLE_QUOTE, <<BACKSLASH, DOUBLE_QUOTE>>),
    NEWLINE, <<BACKSLASH, "n">>),
    CARRIAGE_RETURN, <<BACKSLASH, "r">>),
    TAB, <<BACKSLASH, "t">>)

RECURSIVE unescapeFrom(_, _, _)
unescapeFrom(value, i, result) ==
  IF i >= Len(value) THEN result
  ELSE IF CharAt(value, i) = BACKSLASH
  THEN IF i + 1 >= Len(value) THEN ErrText
       ELSE LET next == CharAt(value, i + 1) IN
         IF next = "n" THEN unescapeFrom(value, i + 2, Append(result, NEWLINE))
         ELSE IF next = "t" THEN unescapeFrom(value, i + 2, Append(result, TAB))
         ELSE IF next = "r"
           THEN unescapeFrom(value, i + 2, Append(result, CARRIAGE_RETURN))
         ELSE IF next = BACKSLASH
           THEN unescapeFrom(value, i + 2, Append(result, BACKSLASH))
         ELSE IF next = DOUBLE_QUOTE
           THEN unescapeFrom(value, i + 2, Append(result, DOUBLE_QUOTE))
         ELSE ErrText
  ELSE unescapeFrom(value, i + 1, Append(result, CharAt(value, i)))

unescapeString(value) == unescapeFrom(value, 0, <<>>)

RECURSIVE closingQuoteFrom(_, _)
closingQuoteFrom(content, i) ==
  IF i >= Len(content) THEN -1
  ELSE IF CharAt(content, i) = BACKSLASH /\ i + 1 < Len(content)
    THEN closingQuoteFrom(content, i + 2)
  ELSE IF CharAt(content, i) = DOUBLE_QUOTE THEN i
  ELSE closingQuoteFrom(content, i + 1)

findClosingQuote(content, start) == closingQuoteFrom(content, start + 1)

RECURSIVE unquotedCharFrom(_, _, _, _)
unquotedCharFrom(content, char, i, inQuotes) ==
  IF i >= Len(content) THEN -1
  ELSE IF CharAt(content, i) = BACKSLASH /\ i + 1 < Len(content) /\ inQuotes
    THEN unquotedCharFrom(content, char, i + 2, inQuotes)
  ELSE IF CharAt(content, i) = DOUBLE_QUOTE
    THEN unquotedCharFrom(content, char, i + 1, ~inQuotes)
  ELSE IF CharAt(content, i) = char /\ ~inQuotes THEN i
  ELSE unquotedCharFrom(content, char, i + 1, inQuotes)

findUnquotedChar(content, char) == unquotedCharFrom(content, char, 0, FALSE)

(***************************************************************************)
(* JavaScript numbers.  A finite number is m * 10^e with m not a multiple  *)
(* of 10 (0 is m = 0, e = 0); -0 and the non-finite numbers are values of  *)
(* their own.                                                              *)
(***************************************************************************)
NegZero == [t |-> "negzero"]
NonFinite == [t |-> "nonfinite"]
NaN == [t |-> "nan"]

RECURSIVE NormNum(_, _)
NormNum(m, e) ==
  IF m = 0 THEN Num(0, 0)
  ELSE IF m % 10 = 0 THEN NormNum(m \div 10, e + 1)
  ELSE Num(m, e)

Abs(n) == IF n < 0 THEN -n ELSE n

RECURSIVE NatToDigits(_)
NatToDigits(n) ==
  IF n < 10 THEN <<Digits[n + 1]>>
  ELSE Append(NatToDigits(n \div 10), Digits[(n % 10) + 1])

RECURSIVE DigitsToNat(_, _)
DigitsToNat(ds, acc) ==
  IF ds = <<>> THEN acc
  ELSE DigitsToNat(Tail(ds), acc * 10 + DigitVal(Head(ds)))

\* the index after the run of decimal digits that starts at i
RECURSIVE DigitRunEnd(_, _)
DigitRunEnd(s, i) ==
  IF i < Len(s) /\ IsDigit(CharAt(s, i)) THEN DigitRunEnd(s, i + 1) ELSE i

\* Number.MAX_VALUE is 1.7976931348623157e308 and the least positive double
\* 4.9e-324; mantissas here have at most four digits.
ScaledMantissa(ds) == DigitsToNat(SubSeq(ds \o <<"0", "0", "0">>, 1, 4), 0)
Overflows(ds, sciExp) ==
  sciExp > 308 \/ (sciExp = 308 /\ ScaledMantissa(ds) >= 1798)
Underflows(ds, sciExp) ==
  sciExp < -324 \/ (sciExp = -324 /\ ScaledMantissa(ds) < 2471)

RECURSIVE StripLeadingZeros(_)
StripLeadingZeros(ds) ==
  IF Len(ds) > 1 /\ Head(ds) = "0" THEN StripLeadingZeros(Tail(ds)) ELSE ds

\* The value of sign, digit string ds (integer and fraction digits together)
\* and decimal exponent e.
DecimalValue(neg, ds, e) ==
  The({ IF sig = <<"0">> THEN (IF neg THEN NegZero ELSE Num(0, 0))
        ELSE IF Overflows(sig, Len(sig) - 1 + e) THEN NonFinite
        ELSE IF Underflows(sig, Len(sig) - 1 + e)
          THEN (IF neg THEN NegZero ELSE Num(0, 0))
        ELSE The({ NormNum(IF neg THEN -m ELSE m, e) : m \in {DigitsToNat(sig, 0)} })
        : sig \in {StripLeadingZeros(ds)} })

\* Number(token) for a trimmed, non-empty token that is not a 0x/0o/0b
\* literal (isNumericLiteral turns those away before it calls Number):
\* StrDecimalLiteral of ECMAScript, else NaN.  The integer digits run from
\* i0 to i1, the fraction digits end at i2, the exponent's digits run from i3
\* to i4.
StringToNumber(token) ==
  LET neg == token # <<>> /\ token[1] = "-"
      i0 == IF token # <<>> /\ token[1] \in {"+", "-"} THEN 1 ELSE 0
  IN The({ The({ The({ The({ The({
         IF SliceFrom(token, i0) = <<"I", "n", "f", "i", "n", "i", "t", "y">>
           THEN NonFinite
         ELSE IF intDs = <<>> /\ fracDs = <<>> THEN NaN
         ELSE IF i3 > i2 /\ expDs = <<>> THEN NaN
         ELSE IF i4 # Len(token) THEN NaN
         ELSE DecimalValue(neg, intDs \o fracDs,
                (IF i3 = i2 + 2 /\ CharAt(token, i2 + 1) = "-"
                 THEN -DigitsToNat(expDs, 0) ELSE DigitsToNat(expDs, 0))
                  - Len(fracDs))
       : intDs \in {Slice(token, i0, i1)},
         fracDs \in {IF i2 > i1 THEN Slice(token, i1 + 1, i2) ELSE <<>>},
         expDs \in {Slice(token, i3, i4)} })
       : i4 \in {IF i3 > i2 THEN DigitRunEnd(token, i3) ELSE i2} })
       : i3 \in {IF i2 < Len(token) /\ CharAt(token, i2) \in {"e", "E"}
                 THEN (IF i2 + 1 < Len(token)
                            /\ CharAt(token, i2 + 1) \in {"+", "-"}
                       THEN i2 + 2 ELSE i2 + 1)
                 ELSE i2} })
       : i2 \in {IF i1 < Len(token) /\ CharAt(token, i1) = "."
                 THEN DigitRunEnd(token, i1 + 1) ELSE i1} })
       : i1 \in {DigitRunEnd(token, i0)} })

\* Number.parseInt(content, 10): NaN, or the integer of the longest prefix
\* [ws] [+-] digits
parseInt(content) ==
  The({ The({ The({
      IF i1 = i0 THEN NaN
      ELSE The({ [t |-> "int", n |-> IF i0 = 1 /\ s[1] = "-" THEN -n ELSE n]
                 : n \in {DigitsToNat(Slice(s, i0, i1), 0)} })
    : i1 \in {DigitRunEnd(s, i0)} })
    : i0 \in {IF s # <<>> /\ s[1] \in {"+", "-"} THEN 1 ELSE 0} })
    : s \in {TrimStart(content)} })

\* String(value) of a number: Number::toString, with the digits ds of the
\* mantissa, their number k and the position n of the decimal point
NumberToString(v) ==
  IF v.t = "negzero" THEN <<"0">>
  ELSE IF v.m = 0 THEN <<"0">>
  ELSE (IF v.m < 0 THEN <<"-">> ELSE <<>>) \o
       The({ The({ IF k <= n /\ n <= 21 THEN ds \o Repeat(<<"0">>, n - k)
                   ELSE IF 0 < n /\ n <= 21
                     THEN SubSeq(ds, 1, n) \o <<".">> \o SubSeq(ds, n + 1, k)
                   ELSE IF -6 < n /\ n <= 0
                     THEN <<"0", ".">> \o Repeat(<<"0">>, -n) \o ds
                   ELSE (IF k = 1 THEN ds ELSE <<ds[1], ".">> \o Tail(ds))
                          \o <<"e">> \o (IF n - 1 < 0 THEN <<"-">> ELSE <<"+">>)
                          \o NatToDigits(Abs(n - 1))
                   : k \in {Len(ds)}, n \in {Len(ds) + v.e} })
             : ds \in {NatToDigits(Abs(v.m))} })

(***************************************************************************)
(* validation-utils (README.md 367-481)                                    *)
(***************************************************************************)
isBooleanOrNullLiteral(token) ==
  token = TRUE_LITERAL \/ token = FALSE_LITERAL \/ token = NULL_LITERAL

isNumericLiteral(token) ==
  IF token = <<>> THEN FALSE
  ELSE IF Len(token) > 1 /\ token[1] = "0" /\ token[2] # "." THEN FALSE
  ELSE StringToNumber(token).t \in {"num", "negzero"}

\* /^-?\d+(?:\.\d+)?(?:e[+-]?\d+)?$/i  or  /^0\d+$/ : the integer digits run
\* from i0 to i1, the optional fraction ends at i2, the digits of an exponent
\* would start at j0
isNumericLike(value) ==
  \/ \E i0 \in {IF value # <<>> /\ value[1] = "-" THEN 1 ELSE 0} :
     \E i1 \in {DigitRunEnd(value, i0)} :
     \E i2 \in {IF i1 + 1 < Len(value) /\ CharAt(value, i1) = "."
                     /\ IsDigit(CharAt(value, i1 + 1))
                THEN DigitRunEnd(value, i1 + 1) ELSE i1} :
     \E j0 \in {IF i2 + 1 < Len(value) /\ CharAt(value, i2 + 1) \in {"+", "-"}
                THEN i2 + 2 ELSE i2 + 1} :
     \E i3 \in {IF i2 < Len(value) /\ CharAt(value, i2) \in {"e", "E"}
                     /\ DigitRunEnd(value, j0) > j0
                THEN DigitRunEnd(value, j0) ELSE i2} :
       i1 > i0 /\ i3 = Len(value)
  \/ (Len(value) >= 2 /\ value[1] = "0"
        /\ DigitRunEnd(value, 1) = Len(value))

\* /^[A-Z_][\w.]*$/i
isValidUnquotedKey(key) ==
  /\ key # <<>>
  /\ (key[1] \in Letters \/ key[1] = "_")
  /\ \A i \in 2..Len(key) : IsWordChar(key[i]) \/ key[i] = "."

isSafeUnquoted(value, delimiter) ==
  /\ value # <<>>
  /\ value = Trim(value)
  /\ ~(isBooleanOrNullLiteral(value) \/ isNumericLike(value))
  /\ ~Includes(value, ":")
  /\ ~(Includes(value, "\"") \/ Includes(value, "\\"))
  /\ ~\E i \in 1..Len(value) : value[i] \in {"[", "]", "{", "}"}
  /\ ~\E i \in 1..Len(value) : value[i] \in {"\n", "\r", "\t"}
  /\ ~Includes(value, delimiter)
  /\ ~StartsWith(value, LIST_ITEM_MARKER)

isJsonPrimitive(value) ==
  value.t \in {"null", "str", "num", "negzero", "nonfinite", "bool"}
isJsonArray(value) == value.t = "arr"
isJsonObject(value) == value.t = "obj"
isPlainObject(value) == value.t = "obj"
isArrayOfPrimitives(value) == \A i \in 1..Len(value.a) : isJsonPrimitive(value.a[i])
isArrayOfArrays(value) == \A i \in 1..Len(value.a) : isJsonArray(value.a[i])
isArrayOfObjects(value) == \A i \in 1..Len(value.a) : isJsonObject(value.a[i])

(***************************************************************************)
(* JavaScript objects: own string keys in property order (array-index keys *)
(* ascending first, then the others in insertion order).  Array-index keys *)
(* of more than nine digits are outside the model.                         *)
(***************************************************************************)
IsArrayIndex(k) ==
  /\ k # <<>> /\ Len(k) <= 9
  /\ \A i \in 1..Len(k) : IsDigit(k[i])
  /\ (Len(k) > 1 => k[1] # "0")

HasKey(o, k) == \E i \in 1..Len(o) : o[i].k = k
ObjGet(o, k) == o[CHOOSE i \in 1..Len(o) : o[i].k = k].v
ObjKeys(o) == [i \in 1..Len(o) |-> o[i].k]

\* the entries that stay in front of a new key k
KeepsBefore(entry, k) ==
  IF IsArrayIndex(k)
  THEN IsArrayIndex(entry.k) /\ DigitsToNat(entry.k, 0) < DigitsToNat(k, 0)
  ELSE TRUE

\* obj[k] = v
ObjSet(o, k, v) ==
  IF HasKey(o, k)
  THEN [i \in 1..Len(o) |-> IF o[i].k = k THEN [k |-> k, v |-> v] ELSE o[i]]
  ELSE LET n == Cardinality({i \in 1..Len(o) : KeepsBefore(o[i], k)})
       IN SubSeq(o, 1, n) \o <<[k |-> k, v |-> v]>> \o SubSeq(o, n + 1, Len(o))

(***************************************************************************)
(* Host values may name shared containers: [t |-> "ref", id] is the        *)
(* container in cell id of the heap h (a sequence of arr/obj values).  A   *)
(* container written in place is an object of its own, referenced once.    *)
(***************************************************************************)
Ref(id) == [t |-> "ref", id |-> id]
Deref(h, value) == IF value.t = "ref" THEN h[value.id] ELSE value

(***************************************************************************)
(* utils.ts: hasCircularReference                                          *)
(***************************************************************************)
\* check(obj) with the WeakSet seen (the ids of the heap cells in it);
\* returns [found, seen]
RECURSIVE check(_, _, _)
RECURSIVE checkItems(_, _, _, _)
checkItems(h, items, i, seen) ==
  IF i > Len(items) THEN [found |-> FALSE, seen |-> seen]
  ELSE LET r == check(h, items[i], seen)
       IN IF r.found THEN r ELSE checkItems(h, items, i + 1, r.seen)

\* check without its seen.delete(obj): a container stays marked
checkNeverUnmarks(h, obj, seen) ==
  IF obj.t = "ref" /\ obj.id \in seen THEN [found |-> TRUE, seen |-> seen]
  ELSE LET target == Deref(h, obj)
           added == IF obj.t = "ref" THEN seen \cup {obj.id} ELSE seen
           items == IF target.t = "arr" THEN target.a
                    ELSE [i \in 1..Len(target.o) |-> target.o[i].v]
       IN checkItems(h, items, 1, added)

checkMarked(h, obj, seen) ==
  IF obj.t = "ref" /\ obj.id \in seen THEN [found |-> TRUE, seen |-> seen]
  ELSE LET target == Deref(h, obj)
           added == IF obj.t = "ref" THEN seen \cup {obj.id} ELSE seen
           items == IF target.t = "arr" THEN target.a
                    ELSE [i \in 1..Len(target.o) |-> target.o[i].v]
           r == checkItems(h, items, 1, added)
       IN IF r.found THEN r
          ELSE [found |-> FALSE,
                seen |-> IF obj.t = "ref" THEN r.seen \ {obj.id} ELSE r.seen]

check(h, obj, seen) ==
  IF obj.t \notin {"arr", "obj", "ref"} THEN [found |-> FALSE, seen |-> seen]
  ELSE checkMarked(h, obj, seen)

hasCircularReference(h, obj) == check(h, obj, {}).found

(***************************************************************************)
(* normalize.ts (unnamed/part_001).  bigint, Date, Set and Map inputs are  *)
(* outside the modelled host values.                                       *)
(***************************************************************************)
RECURSIVE normalizeValue(_, _)
RECURSIVE normalizeEntries(_, _, _, _)
normalizeEntries(h, o, i, result) ==
  IF i > Len(o) THEN result
  ELSE normalizeEntries(h, o, i + 1,
         ObjSet(result, o[i].k, normalizeValue(h, o[i].v)))

\* the normalization with -0 returned as it is
negZeroKept(h, value) ==
  IF value.t \in {"null", "str", "bool", "num", "negzero"} THEN value
  ELSE IF value.t = "nonfinite" THEN Null
  ELSE LET target == Deref(h, value) IN
    IF target.t = "arr"
      THEN Arr([i \in 1..Len(target.a) |-> normalizeValue(h, target.a[i])])
    ELSE IF target.t = "obj"
      THEN Obj(normalizeEntries(h, target.o, 1, <<>>))
    ELSE Null

normalizeValue(h, value) ==
  IF value.t = "null" THEN Null
  ELSE IF value.t \in {"str", "bool"} THEN value
  ELSE IF value.t = "negzero" THEN Num(0, 0)
  ELSE IF value.t = "nonfinite" THEN Null
  ELSE IF value.t = "num" THEN value
  ELSE LET target == Deref(h, value) IN
    IF target.t = "arr"
      THEN Arr([i \in 1..Len(target.a) |-> normalizeValue(h, target.a[i])])
    ELSE IF target.t = "obj"
      THEN Obj(normalizeEntries(h, target.o, 1, <<>>))
    ELSE Null

(***************************************************************************)
(* encode.ts                                                               *)
(***************************************************************************)
\* an absent (undefined) key, and an absent field list
NoKey == <<"#undefined">>
NoFields == <<NoKey>>

\* the options with the pretty switch read: no indentation when it is off
prettyRead(options) ==
  [indent |-> IF options.pretty THEN DEFAULT_INDENT_SIZE ELSE 0,
   delimiter |-> options.delimiter,
   lengthMarker |-> FALSE]

resolveOptions(options) ==
  [indent |-> DEFAULT_INDENT_SIZE,
   delimiter |-> options.delimiter,
   lengthMarker |-> FALSE]

encodeStringLiteral(value, delimiter) ==
  IF isSafeUnquoted(value, delimiter) THEN value
  ELSE <<DOUBLE_QUOTE>> \o escapeString(value) \o <<DOUBLE_QUOTE>>

encodePrimitive(value, delimiter) ==
  IF value.t = "null" THEN NULL_LITERAL
  ELSE IF value.t = "bool"
    THEN (IF value.b THEN TRUE_LITERAL ELSE FALSE_LITERAL)
  ELSE IF value.t = "num" THEN NumberToString(value)
  ELSE encodeStringLiteral(value.s, delimiter)

encodeKey(key) ==
  IF isValidUnquotedKey(key) THEN key
  ELSE <<DOUBLE_QUOTE>> \o escapeString(key) \o <<DOUBLE_QUOTE>>

encodeAndJoinPrimitives(values, delimiter) ==
  Join([i \in 1..Len(values) |-> encodePrimitive(values[i], delimiter)],
       <<delimiter>>)

formatHeader(length, key, fields, delimiter, lengthMarker) ==
  (IF key # NoKey /\ key # <<>> THEN encodeKey(key) ELSE <<>>)
  \o <<OPEN_BRACKET>> \o (IF lengthMarker THEN <<HASH>> ELSE <<>>)
  \o NatToDigits(length)
  \o (IF delimiter # DEFAULT_DELIMITER THEN <<delimiter>> ELSE <<>>)
  \o <<CLOSE_BRACKET>>
  \o (IF fields # NoFields
      THEN <<OPEN_BRACE>>
           \o Join([i \in 1..Len(fields) |-> encodeKey(fields[i])], <<delimiter>>)
           \o <<CLOSE_BRACE>>
      ELSE <<>>)
  \o <<COLON>>

\* LineWriter.push: the writer is the sequence of its lines
Line(indentSize, depth, content) == Repeat(Repeat(<<SPACE>>, indentSize), depth) \o content
ListItemLine(indentSize, depth, content) ==
  Line(indentSize, depth, LIST_ITEM_PREFIX \o content)
WriterToString(lines) == Join(lines, <<NEWLINE>>)

encodeInlineArrayLine(values, delimiter, prefix, lengthMarker) ==
  LET header == formatHeader(Len(values), prefix, NoFields, delimiter, lengthMarker)
      joinedValue == encodeAndJoinPrimitives(values, delimiter)
  IN IF Len(values) = 0 THEN header ELSE header \o <<SPACE>> \o joinedValue

isTabularArray(rows, header) ==
  \A r \in 1..Len(rows) :
    /\ Len(rows[r].o) = Len(header)
    /\ \A j \in 1..Len(header) :
         HasKey(rows[r].o, header[j]) /\ isJsonPrimitive(ObjGet(rows[r].o, header[j]))

extractTabularHeader(rows) ==
  IF Len(rows) = 0 THEN NoFields
  ELSE LET firstKeys == ObjKeys(rows[1].o)
       IN IF Len(firstKeys) = 0 THEN NoFields
          ELSE IF isTabularArray(rows, firstKeys) THEN firstKeys
          ELSE NoFields

writeTabularRows(rows, header, depth, options) ==
  [r \in 1..Len(rows) |->
     Line(options.indent, depth,
          encodeAndJoinPrimitives(
            [j \in 1..Len(header) |-> ObjGet(rows[r].o, header[j])],
            options.delimiter))]

encodeArrayOfObjectsAsTabular(prefix, rows, header, depth, options) ==
  <<Line(options.indent, depth,
         formatHeader(Len(rows), prefix, header, options.delimiter,
                      options.lengthMarker))>>
  \o writeTabularRows(rows, header, depth + 1, options)

RECURSIVE arraysAsListItems(_, _, _, _)
arraysAsListItems(values, i, depth, options) ==
  IF i > Len(values) THEN <<>>
  ELSE (IF isArrayOfPrimitives(values[i])
        THEN <<ListItemLine(options.indent, depth,
                 encodeInlineArrayLine(values[i].a, options.delimiter, NoKey,
                                       options.lengthMarker))>>
        ELSE <<>>)
       \o arraysAsListItems(values, i + 1, depth, options)

encodeArrayOfArraysAsListItems(prefix, values, depth, options) ==
  <<Line(options.indent, depth,
         formatHeader(Len(values), prefix, NoFields, options.delimiter,
                      options.lengthMarker))>>
  \o arraysAsListItems(values, 1, depth + 1, options)

RECURSIVE encodeObject(_, _, _)
RECURSIVE encodeObjectFrom(_, _, _, _)
RECURSIVE encodeKeyValuePair(_, _, _, _)
RECURSIVE encodeArray(_, _, _, _)
RECURSIVE encodeMixedArrayAsListItems(_, _, _, _)
RECURSIVE encodeObjectAsListItem(_, _, _)
RECURSIVE objectsAsListItems(_, _, _, _)
RECURSIVE encodeListItemValue(_, _, _)
RECURSIVE listItemValues(_, _, _, _)

\* for (const key of keys) encodeKeyValuePair(...), from the i-th key on
encodeObjectFrom(o, i, depth, options) ==
  IF i > Len(o) THEN <<>>
  ELSE encodeKeyValuePair(o[i].k, o[i].v, depth, options)
       \o encodeObjectFrom(o, i + 1, depth, options)

encodeObject(value, depth, options) == encodeObjectFrom(value.o, 1, depth, options)

encodeKeyValuePair(key, value, depth, options) ==
  LET encodedKey == encodeKey(key) IN
  IF isJsonPrimitive(value)
    THEN <<Line(options.indent, depth,
                encodedKey \o <<COLON, SPACE>>
                  \o encodePrimitive(value, options.delimiter))>>
  ELSE IF isJsonArray(value) THEN encodeArray(key, value.a, depth, options)
  ELSE IF isJsonObject(value)
    THEN IF Len(value.o) = 0
         THEN <<Line(options.indent, depth, encodedKey \o <<COLON>>)>>
         ELSE <<Line(options.indent, depth, encodedKey \o <<COLON>>)>>
              \o encodeObject(value, depth + 1, options)
  ELSE <<>>

encodeArray(key, value, depth, options) ==
  IF Len(value) = 0
    THEN <<Line(options.indent, depth,
                formatHeader(0, key, NoFields, options.delimiter,
                             options.lengthMarker))>>
  ELSE IF isArrayOfPrimitives(Arr(value))
    THEN <<Line(options.indent, depth,
                encodeInlineArrayLine(value, options.delimiter, key,
                                      options.lengthMarker))>>
  ELSE IF isArrayOfArrays(Arr(value))
            /\ \A i \in 1..Len(value) : isArrayOfPrimitives(value[i])
    THEN encodeArrayOfArraysAsListItems(key, value, depth, options)
  ELSE IF isArrayOfObjects(Arr(value))
    THEN LET header == extractTabularHeader(value) IN
         IF header # NoFields
         THEN encodeArrayOfObjectsAsTabular(key, value, header, depth, options)
         ELSE encodeMixedArrayAsListItems(key, value, depth, options)
  ELSE encodeMixedArrayAsListItems(key, value, depth, options)

listItemValues(items, i, depth, options) ==
  IF i > Len(items) THEN <<>>
  ELSE encodeListItemValue(items[i], depth, options)
       \o listItemValues(items, i + 1, depth, options)

encodeMixedArrayAsListItems(prefix, items, depth, options) ==
  <<Line(options.indent, depth,
         formatHeader(Len(items), prefix, NoFields, options.delimiter,
                      options.lengthMarker))>>
  \o listItemValues(items, 1, depth + 1, options)

objectsAsListItems(items, i, depth, options) ==
  IF i > Len(items) THEN <<>>
  ELSE encodeObjectAsListItem(items[i], depth, options)
       \o objectsAsListItems(items, i + 1, depth, options)

\* the '- ' line of a non-empty object and the body of its first value
firstFieldAsListItem(firstKey, firstValue, depth, options) ==
  LET encodedKey == encodeKey(firstKey)
      bareHeader == encodedKey \o <<OPEN_BRACKET>>
                      \o NatToDigits(Len(firstValue.a)) \o <<CLOSE_BRACKET, COLON>>
  IN
  IF isJsonPrimitive(firstValue)
    THEN <<ListItemLine(options.indent, depth,
             encodedKey \o <<COLON, SPACE>>
               \o encodePrimitive(firstValue, options.delimiter))>>
  ELSE IF isJsonArray(firstValue)
    THEN IF isArrayOfPrimitives(firstValue)
         THEN <<ListItemLine(options.indent, depth,
                  encodeInlineArrayLine(firstValue.a, options.delimiter, firstKey,
                                        options.lengthMarker))>>
         ELSE IF isArrayOfObjects(firstValue)
         THEN LET header == extractTabularHeader(firstValue.a) IN
              IF header # NoFields
              THEN <<ListItemLine(options.indent, depth,
                       formatHeader(Len(firstValue.a), firstKey, header,
                                    options.delimiter, options.lengthMarker))>>
                   \o writeTabularRows(firstValue.a, header, depth + 1, options)
              ELSE <<ListItemLine(options.indent, depth, bareHeader)>>
                   \o objectsAsListItems(firstValue.a, 1, depth + 1, options)
         ELSE <<ListItemLine(options.indent, depth, bareHeader)>>
              \o listItemValues(firstValue.a, 1, depth + 1, options)
  ELSE IF isJsonObject(firstValue)
    THEN IF Len(firstValue.o) = 0
         THEN <<ListItemLine(options.indent, depth, encodedKey \o <<COLON>>)>>
         ELSE <<ListItemLine(options.indent, depth, encodedKey \o <<COLON>>)>>
              \o encodeObject(firstValue, depth + 2, options)
  ELSE <<>>

encodeObjectAsListItem(obj, depth, options) ==
  IF Len(obj.o) = 0 THEN <<Line(options.indent, depth, LIST_ITEM_MARKER)>>
  ELSE firstFieldAsListItem(obj.o[1].k, obj.o[1].v, depth, options)
       \o encodeObjectFrom(obj.o, 2, depth + 1, options)

encodeListItemValue(value, depth, options) ==
  IF isJsonPrimitive(value)
    THEN <<ListItemLine(options.indent, depth,
                        encodePrimitive(value, options.delimiter))>>
  ELSE IF isJsonArray(value) /\ isArrayOfPrimitives(value)
    THEN <<ListItemLine(options.indent, depth,
             encodeInlineArrayLine(value.a, options.delimiter, NoKey,
                                   options.lengthMarker))>>
  ELSE IF isJsonObject(value) THEN encodeObjectAsListItem(value, depth, options)
  ELSE <<>>

encodeValue(value, options) ==
  IF isJsonPrimitive(value) THEN encodePrimitive(value, options.delimiter)
  ELSE IF isJsonArray(value)
    THEN WriterToString(encodeArray(NoKey, value.a, 0, options))
  ELSE IF isJsonObject(value) THEN WriterToString(encodeObject(value, 0, options))
  ELSE WriterToString(<<>>)

\* serialize(obj, options): the text, or the SerializeError thrown
serialize(h, obj, options) ==
  IF hasCircularReference(h, obj) THEN Err("SerializeError")
  ELSE [t |-> "text",
        s |-> encodeValue(normalizeValue(h, obj), resolveOptions(options))]

(***************************************************************************)
(* decode.ts: the line model                                               *)
(***************************************************************************)
computeDepthFromIndent(indentSpaces, indentSize) == indentSpaces \div indentSize

\* the index after the run of characters of set cs that starts at i
RECURSIVE RunEnd(_, _, _)
RunEnd(raw, i, cs) ==
  IF i < Len(raw) /\ CharAt(raw, i) \in cs THEN RunEnd(raw, i + 1, cs) ELSE i

\* the strict-mode checks with the multiple-of-indentSize check left out
tabCheckOnly(raw, indent, indentSize) ==
  Includes(Slice(raw, 0, RunEnd(raw, 0, {SPACE, TAB})), TAB)

\* the strict-mode checks of one non-blank line: TRUE when it throws
strictLineThrows(raw, indent, indentSize) ==
  LET wsEnd == RunEnd(raw, 0, {SPACE, TAB})
  IN \/ Includes(Slice(raw, 0, wsEnd), TAB)
     \/ (indent > 0 /\ indent % indentSize # 0)

RECURSIVE scanLines(_, _, _, _, _, _)
scanLines(lines, i, indentSize, strict, parsed, blankLines) ==
  IF i >= Len(lines)
  THEN [t |-> "lines", lines |-> parsed, blankLines |-> blankLines]
  ELSE The({
    IF Trim(SliceFrom(raw, indent)) = <<>>
    THEN scanLines(lines, i + 1, indentSize, strict, parsed,
           Append(blankLines,
                  [lineNumber |-> i + 1, indent |-> indent,
                   depth |-> computeDepthFromIndent(indent, indentSize)]))
    ELSE IF strict /\ strictLineThrows(raw, indent, indentSize)
    THEN Err("SyntaxError")
    ELSE scanLines(lines, i + 1, indentSize, strict,
           Append(parsed,
                  [raw |-> raw, indent |-> indent,
                   content |-> SliceFrom(raw, indent),
                   depth |-> computeDepthFromIndent(indent, indentSize),
                   lineNumber |-> i + 1]),
           blankLines)
    : raw \in {CharAt(lines, i)}, indent \in {RunEnd(CharAt(lines, i), 0, {SPACE})} })

\* the scan with the strict-mode checks made on the blank lines as well
blanksChecked(source, indentSize, strict) ==
  IF Trim(source) = <<>>
  THEN [t |-> "lines", lines |-> <<>>, blankLines |-> <<>>]
  ELSE The({
    IF strict /\ \E i \in 1..Len(lines) :
                   strictLineThrows(lines[i], RunEnd(lines[i], 0, {SPACE}),
                                    indentSize)
    THEN Err("SyntaxError")
    ELSE scanLines(lines, 0, indentSize, strict, <<>>, <<>>)
    : lines \in {Split(source, NEWLINE)} })

\* the scan that in strict mode leaves out the lines the strict checks are
\* against, and reads the others
strictDropsLines(source, indentSize, strict) ==
  IF Trim(source) = <<>>
  THEN [t |-> "lines", lines |-> <<>>, blankLines |-> <<>>]
  ELSE scanLines(SelectSeq(Split(source, NEWLINE),
                           LAMBDA raw :
                             ~(strict /\ strictLineThrows(raw, RunEnd(raw, 0, {SPACE}),
                                                          indentSize))),
                 0, indentSize, FALSE, <<>>, <<>>)

toParsedLines(source, indentSize, strict) ==
  IF Trim(source) = <<>>
  THEN [t |-> "lines", lines |-> <<>>, blankLines |-> <<>>]
  ELSE scanLines(Split(source, NEWLINE), 0, indentSize, strict, <<>>, <<>>)

(***************************************************************************)
(* decode.ts: tokens and headers                                           *)
(***************************************************************************)
None == [t |-> "none"]

parseBracketSegment(seg, defaultDelimiter) ==
  LET hasLengthMarker == StartsWith(seg, <<HASH>>)
      content == IF hasLengthMarker THEN SliceFrom(seg, 1) ELSE seg
      delimiter == IF EndsWithChar(content, TAB) THEN TAB
                   ELSE IF EndsWithChar(content, PIPE) THEN PIPE
                   ELSE defaultDelimiter
  IN The({ IF length.t = "nan" THEN Err("TypeError")
           ELSE [t |-> "bracket", length |-> length.n, delimiter |-> delimiter,
                 hasLengthMarker |-> hasLengthMarker]
           : length \in {parseInt(IF EndsWithChar(content, TAB)
                                       \/ EndsWithChar(content, PIPE)
                                  THEN Slice(content, 0, Len(content) - 1)
                                  ELSE content)} })

RECURSIVE delimitedFrom(_, _, _, _, _, _)
delimitedFrom(input, delimiter, i, current, inQuotes, values) ==
  IF i >= Len(input)
  THEN IF current # <<>> \/ Len(values) > 0
       THEN Append(values, Trim(current)) ELSE values
  ELSE LET char == CharAt(input, i) IN
    IF char = BACKSLASH /\ i + 1 < Len(input) /\ inQuotes
      THEN delimitedFrom(input, delimiter, i + 2,
             current \o <<char, CharAt(input, i + 1)>>, inQuotes, values)
    ELSE IF char = DOUBLE_QUOTE
      THEN delimitedFrom(input, delimiter, i + 1, Append(current, char),
                         ~inQuotes, values)
    ELSE IF char = delimiter /\ ~inQuotes
      THEN delimitedFrom(input, delimiter, i + 1, <<>>, inQuotes,
                         Append(values, Trim(current)))
    ELSE delimitedFrom(input, delimiter, i + 1, Append(current, char),
                       inQuotes, values)

parseDelimitedValues(input, delimiter) ==
  delimitedFrom(input, delimiter, 0, <<>>, FALSE, <<>>)

\* the text, or ErrText for the SyntaxError thrown
parseStringLiteral(token) ==
  The({ IF StartsWith(trimmed, <<DOUBLE_QUOTE>>)
        THEN The({ IF closingQuoteIndex = -1 THEN ErrText
                   ELSE IF closingQuoteIndex # Len(trimmed) - 1 THEN ErrText
                   ELSE unescapeString(Slice(trimmed, 1, closingQuoteIndex))
                   : closingQuoteIndex \in {findClosingQuote(trimmed, 0)} })
        ELSE trimmed
        : trimmed \in {Trim(token)} })

parsePrimitiveToken(token) ==
  The({ IF trimmed = <<>> THEN Str(<<>>)
        ELSE IF StartsWith(trimmed, <<DOUBLE_QUOTE>>)
          THEN The({ IF IsErrText(lit) THEN Err("SyntaxError") ELSE Str(lit)
                     : lit \in {parseStringLiteral(trimmed)} })
        ELSE IF isBooleanOrNullLiteral(trimmed)
          THEN (IF trimmed = TRUE_LITERAL THEN Bool(TRUE)
                ELSE IF trimmed = FALSE_LITERAL THEN Bool(FALSE)
                ELSE Null)
        ELSE IF isNumericLiteral(trimmed) THEN StringToNumber(trimmed)
        ELSE Str(trimmed)
        : trimmed \in {Trim(token)} })

\* the first exception among the elements of a sequence of values, or None
FirstErr(vs) ==
  LET bad == {i \in 1..Len(vs) : IsErr(vs[i])}
  IN IF bad = {} THEN None ELSE vs[CHOOSE i \in bad : \A j \in bad : i <= j]

mapRowValuesToPrimitives(values) ==
  [i \in 1..Len(values) |-> parsePrimitiveToken(values[i])]

parseArrayHeaderLine(content, defaultDelimiter) ==
  IF StartsWith(TrimStart(content), <<DOUBLE_QUOTE>>) THEN None
  ELSE The({ IF bracketStart = -1 THEN None
  ELSE The({ IF bracketEnd = -1 THEN None
  ELSE The({ The({ The({ The({ IF colonIndex = -1 THEN None
  ELSE The({ IF IsErr(parsedBracket) THEN None
  ELSE The({ The({
    IF hasFields /\ \E i \in 1..Len(fields) : IsErrText(fields[i])
    THEN Err("SyntaxError")
    ELSE [t |-> "header",
          header |->
            [key |-> IF bracketStart > 0 THEN Trim(Slice(content, 0, bracketStart))
                     ELSE NoKey,
             length |-> parsedBracket.length,
             delimiter |-> parsedBracket.delimiter,
             fields |-> IF hasFields THEN fields ELSE NoFields,
             hasLengthMarker |-> parsedBracket.hasLengthMarker],
          inlineValues |-> Trim(SliceFrom(content, colonIndex + 1))]
    : fields \in {[i \in 1..Len(rawFields) |->
                     parseStringLiteral(Trim(rawFields[i]))]} })
    : hasFields \in {braceStart # -1 /\ braceStart < colonIndex
                       /\ firstBraceEnd # -1 /\ firstBraceEnd < colonIndex},
      rawFields \in {parseDelimitedValues(
                       Slice(content, braceStart + 1, firstBraceEnd),
                       parsedBracket.delimiter)} })
    : parsedBracket \in {parseBracketSegment(
                           Slice(content, bracketStart + 1, braceEnd),
                           defaultDelimiter)} })
    : colonIndex \in {IndexOf(content, COLON, Max(bracketEnd, braceEnd))} })
    : braceEnd \in {IF braceStart # -1
                         /\ braceStart < IndexOf(content, COLON, bracketEnd)
                         /\ firstBraceEnd # -1
                    THEN firstBraceEnd + 1 ELSE bracketEnd + 1} })
    : firstBraceEnd \in {IndexOf(content, CLOSE_BRACE, braceStart)} })
    : braceStart \in {IndexOf(content, OPEN_BRACE, bracketEnd)} })
    : bracketEnd \in {IndexOf(content, CLOSE_BRACKET, bracketStart)} })
    : bracketStart \in {IndexOf(content, OPEN_BRACKET, 0)} })

\* [key, end], or the SyntaxError thrown
parseUnquotedKey(content, start) ==
  The({ IF end = -1 THEN Err("SyntaxError")
        ELSE [t |-> "key", key |-> Trim(Slice(content, start, end)), end |-> end + 1]
        : end \in {IndexOf(content, COLON, start)} })

parseQuotedKey(content, start) ==
  The({ IF closingQuoteIndex = -1 THEN Err("SyntaxError")
        ELSE The({ IF IsErrText(key) THEN Err("SyntaxError")
                   ELSE IF closingQuoteIndex + 1 >= Len(content)
                           \/ CharAt(content, closingQuoteIndex + 1) # COLON
                     THEN Err("SyntaxError")
                   ELSE [t |-> "key", key |-> key, end |-> closingQuoteIndex + 2]
                   : key \in {unescapeString(
                                Slice(content, start + 1, closingQuoteIndex))} })
        : closingQuoteIndex \in {findClosingQuote(content, start)} })

parseKeyToken(content, start) ==
  IF start < Len(content) /\ CharAt(content, start) = DOUBLE_QUOTE
  THEN parseQuotedKey(content, start)
  ELSE parseUnquotedKey(content, start)

isArrayHeaderAfterHyphen(content) ==
  StartsWith(Trim(content), <<OPEN_BRACKET>>) /\ findUnquotedChar(content, COLON) # -1

isObjectFirstFieldAfterHyphen(content) == findUnquotedChar(content, COLON) # -1

\* TRUE when the assertion throws its RangeError
assertExpectedCount(actual, expected, options) ==
  options.strict /\ actual # expected

isDataRow(content, delimiter) ==
  LET colonPos == IndexOf(content, COLON, 0)
      delimiterPos == IndexOf(content, delimiter, 0)
  IN IF colonPos = -1 THEN TRUE
     ELSE IF delimiterPos # -1 /\ delimiterPos < colonPos THEN TRUE
     ELSE FALSE

isKeyValueLine(line) ==
  LET content == line.content IN
  IF StartsWith(content, <<DOUBLE_QUOTE>>)
  THEN LET closingQuoteIndex == findClosingQuote(content, 0) IN
       IF closingQuoteIndex = -1 THEN FALSE
       ELSE closingQuoteIndex + 1 < Len(content)
              /\ CharAt(content, closingQuoteIndex + 1) = COLON
  ELSE Includes(content, COLON)

(***************************************************************************)
(* decode.ts: the recursive descent.  The LineCursor is the line sequence  *)
(* and its index idx; a decoder returns [v, idx]: the value (or the        *)
(* exception thrown) and the cursor index it leaves.                       *)
(***************************************************************************)
Ret(v, idx) == [v |-> v, idx |-> idx]

decodeInlinePrimitiveArray(header, inlineValues, options) ==
  IF Trim(inlineValues) = <<>>
  THEN IF assertExpectedCount(0, header.length, options)
       THEN Err("RangeError") ELSE Arr(<<>>)
  ELSE The({ IF FirstErr(primitives) # None THEN FirstErr(primitives)
             ELSE IF assertExpectedCount(Len(primitives), header.length, options)
               THEN Err("RangeError")
             ELSE Arr(primitives)
             : primitives \in {mapRowValuesToPrimitives(
                                 parseDelimitedValues(inlineValues,
                                                      header.delimiter))} })

\* for (i < header.fields.length) obj[header.fields[i]] = primitives[i]
RECURSIVE bindFields(_, _, _, _)
bindFields(fields, primitives, i, obj) ==
  IF i > Len(fields) THEN obj
  ELSE bindFields(fields, primitives, i + 1,
         ObjSet(obj, fields[i],
                IF i <= Len(primitives) THEN primitives[i] ELSE Undefined))

RECURSIVE decodeObject(_, _, _, _)
RECURSIVE decodeObjectLoop(_, _, _, _, _)
RECURSIVE decodeKeyValuePair(_, _, _, _, _)
RECURSIVE decodeKeyValue(_, _, _, _, _)
RECURSIVE decodeArrayFromHeader(_, _, _, _, _, _)
RECURSIVE decodeListArray(_, _, _, _, _)
RECURSIVE listArrayLoop(_, _, _, _, _, _)
RECURSIVE decodeListItem(_, _, _, _, _)
RECURSIVE decodeObjectFromListItem(_, _, _, _, _)
RECURSIVE listItemFieldsLoop(_, _, _, _, _)
RECURSIVE decodeTabularArray(_, _, _, _, _)
RECURSIVE tabularLoop(_, _, _, _, _, _)

decodeObjectLoop(lines, idx, baseDepth, options, obj) ==
  IF idx >= Len(lines) THEN Ret(Obj(obj), idx)
  ELSE IF CharAt(lines, idx).depth # baseDepth THEN Ret(Obj(obj), idx)
  ELSE The({ IF IsErr(kv) THEN Ret(kv, idx)
             ELSE decodeObjectLoop(lines, kv.idx, baseDepth, options,
                                   ObjSet(obj, kv.key, kv.value))
             : kv \in {decodeKeyValuePair(CharAt(lines, idx), lines, idx,
                                          baseDepth, options)} })

decodeObject(lines, idx, baseDepth, options) ==
  decodeObjectLoop(lines, idx, baseDepth, options, <<>>)

\* the pair read with the cursor advanced twice
pairSkipsLine(line, lines, idx, baseDepth, options) ==
  decodeKeyValue(line.content, lines, idx + 2, baseDepth, options)

decodeKeyValuePair(line, lines, idx, baseDepth, options) ==
  decodeKeyValue(line.content, lines, idx + 1, baseDepth, options)

\* [key, value, followDepth, idx], or the exception thrown
decodeKeyValue(content, lines, idx, baseDepth, options) ==
  The({
    IF IsErr(arrayHeader) THEN arrayHeader
    ELSE IF arrayHeader # None /\ arrayHeader.header.key # NoKey
              /\ arrayHeader.header.key # <<>>
    THEN The({ IF IsErr(r.v) THEN r.v
               ELSE [t |-> "kv", key |-> arrayHeader.header.key, value |-> r.v,
                     followDepth |-> baseDepth + 1, idx |-> r.idx]
               : r \in {decodeArrayFromHeader(arrayHeader.header,
                          arrayHeader.inlineValues, lines, idx, baseDepth,
                          options)} })
    ELSE The({
      IF IsErr(tok) THEN tok
      ELSE The({
        IF rest = <<>>
        THEN IF idx < Len(lines) /\ CharAt(lines, idx).depth > baseDepth
             THEN The({ IF IsErr(r.v) THEN r.v
                        ELSE [t |-> "kv", key |-> tok.key, value |-> r.v,
                              followDepth |-> baseDepth + 1, idx |-> r.idx]
                        : r \in {decodeObject(lines, idx, baseDepth + 1, options)} })
             ELSE [t |-> "kv", key |-> tok.key, value |-> Obj(<<>>),
                   followDepth |-> baseDepth + 1, idx |-> idx]
        ELSE The({ IF IsErr(value) THEN value
                   ELSE [t |-> "kv", key |-> tok.key, value |-> value,
                         followDepth |-> baseDepth + 1, idx |-> idx]
                   : value \in {parsePrimitiveToken(rest)} })
        : rest \in {Trim(SliceFrom(content, tok.end))} })
      : tok \in {parseKeyToken(content, 0)} })
    : arrayHeader \in {parseArrayHeaderLine(content, DEFAULT_DELIMITER)} })

decodeArrayFromHeader(header, inlineValues, lines, idx, baseDepth, options) ==
  IF inlineValues # <<>>
    THEN Ret(decodeInlinePrimitiveArray(header, inlineValues, options), idx)
  ELSE IF header.fields # NoFields /\ Len(header.fields) > 0
    THEN decodeTabularArray(header, lines, idx, baseDepth, options)
  ELSE decodeListArray(header, lines, idx, baseDepth, options)

listArrayLoop(header, lines, idx, itemDepth, options, items) ==
  IF idx < Len(lines) /\ Len(items) < header.length
       /\ CharAt(lines, idx).depth = itemDepth
       /\ StartsWith(CharAt(lines, idx).content, LIST_ITEM_PREFIX)
  THEN The({ IF IsErr(item.v) THEN item
             ELSE listArrayLoop(header, lines, item.idx, itemDepth, options,
                                Append(items, item.v))
             : item \in {decodeListItem(lines, idx, itemDepth, header.delimiter,
                                        options)} })
  ELSE IF assertExpectedCount(Len(items), header.length, options)
    THEN Ret(Err("RangeError"), idx)
  ELSE Ret(Arr(items), idx)

decodeListArray(header, lines, idx, baseDepth, options) ==
  listArrayLoop(header, lines, idx, baseDepth + 1, options, <<>>)

decodeListItem(lines, idx, baseDepth, activeDelimiter, options) ==
  The({
    IF IsErr(arrayHeader) THEN Ret(arrayHeader, idx + 1)
    ELSE IF arrayHeader # None
      THEN decodeArrayFromHeader(arrayHeader.header, arrayHeader.inlineValues,
                                 lines, idx + 1, baseDepth, options)
    ELSE IF isObjectFirstFieldAfterHyphen(afterHyphen)
      THEN decodeObjectFromListItem(CharAt(lines, idx), lines, idx + 1, baseDepth,
                                    options)
    ELSE Ret(parsePrimitiveToken(afterHyphen), idx + 1)
    : afterHyphen \in {SliceFrom(CharAt(lines, idx).content, Len(LIST_ITEM_PREFIX))},
      arrayHeader \in
        {IF isArrayHeaderAfterHyphen(
              SliceFrom(CharAt(lines, idx).content, Len(LIST_ITEM_PREFIX)))
         THEN parseArrayHeaderLine(
                SliceFrom(CharAt(lines, idx).content, Len(LIST_ITEM_PREFIX)),
                DEFAULT_DELIMITER)
         ELSE None} })

listItemFieldsLoop(lines, idx, followDepth, options, obj) ==
  IF idx < Len(lines) /\ CharAt(lines, idx).depth = followDepth
       /\ ~StartsWith(CharAt(lines, idx).content, LIST_ITEM_PREFIX)
  THEN The({ IF IsErr(kv) THEN Ret(kv, idx)
             ELSE listItemFieldsLoop(lines, kv.idx, followDepth, options,
                                     ObjSet(obj, kv.key, kv.value))
             : kv \in {decodeKeyValuePair(CharAt(lines, idx), lines, idx,
                                          followDepth, options)} })
  ELSE Ret(Obj(obj), idx)

decodeObjectFromListItem(firstLine, lines, idx, baseDepth, options) ==
  The({ IF IsErr(kv) THEN Ret(kv, idx)
        ELSE listItemFieldsLoop(lines, kv.idx, kv.followDepth, options,
                                <<[k |-> kv.key, v |-> kv.value]>>)
        : kv \in {decodeKeyValue(
                    SliceFrom(firstLine.content, Len(LIST_ITEM_PREFIX)),
                    lines, idx, baseDepth, options)} })

tabularLoop(header, lines, idx, rowDepth, options, objects) ==
  IF idx < Len(lines) /\ Len(objects) < header.length
       /\ CharAt(lines, idx).depth = rowDepth
       /\ ~StartsWith(CharAt(lines, idx).content, LIST_ITEM_PREFIX)
       /\ isDataRow(CharAt(lines, idx).content, header.delimiter)
  THEN The({
    IF assertExpectedCount(Len(values), Len(header.fields), options)
      THEN Ret(Err("RangeError"), idx + 1)
    ELSE The({
      IF FirstErr(primitives) # None THEN Ret(FirstErr(primitives), idx + 1)
      ELSE tabularLoop(header, lines, idx + 1, rowDepth, options,
             Append(objects, Obj(bindFields(header.fields, primitives, 1, <<>>))))
      : primitives \in {mapRowValuesToPrimitives(values)} })
    : values \in {parseDelimitedValues(CharAt(lines, idx).content,
                                       header.delimiter)} })
  ELSE IF assertExpectedCount(Len(objects), header.length, options)
    THEN Ret(Err("RangeError"), idx)
  ELSE Ret(Arr(objects), idx)

\* the tabular body read to its last row, whatever count the header declares
rowsUncounted(header, lines, idx, baseDepth, options) ==
  tabularLoop([header EXCEPT !.length = Len(lines)], lines, idx, baseDepth + 1,
              options, <<>>)

decodeTabularArray(header, lines, idx, baseDepth, options) ==
  tabularLoop(header, lines, idx, baseDepth + 1, options, <<>>)

decodeValueFromLines(lines, options) ==
  IF Len(lines) = 0 THEN Ret(Err("ReferenceError"), 0)
  ELSE The({
    IF IsErr(headerInfo) THEN Ret(headerInfo, 0)
    ELSE IF headerInfo # None
      THEN decodeArrayFromHeader(headerInfo.header, headerInfo.inlineValues,
                                 lines, 1, 0, options)
    ELSE IF Len(lines) = 1 /\ ~isKeyValueLine(first)
      THEN Ret(parsePrimitiveToken(Trim(first.content)), 0)
    ELSE decodeObject(lines, 0, 0, options)
    : first \in {CharAt(lines, 0)},
      headerInfo \in {IF isArrayHeaderAfterHyphen(CharAt(lines, 0).content)
                      THEN parseArrayHeaderLine(CharAt(lines, 0).content,
                                                DEFAULT_DELIMITER)
                      ELSE None} })

\* a deserialize that reads a document without lines as the empty object
emptyAsObject(toonStr, options) ==
  The({ IF IsErr(scanResult) THEN Ret(scanResult, 0)
        ELSE IF Len(scanResult.lines) = 0 THEN Ret(Obj(<<>>), 0)
        ELSE decodeValueFromLines(scanResult.lines,
               [indent |-> DEFAULT_INDENT_SIZE, strict |-> options.strict])
        : scanResult \in {toParsedLines(toonStr, DEFAULT_INDENT_SIZE,
                                        options.strict)} })

\* [v, idx]: what deserialize returns or throws, and where it left the cursor
deserialize(toonStr, options) ==
  The({ IF IsErr(scanResult) THEN Ret(scanResult, 0)
        ELSE IF Len(scanResult.lines) = 0 THEN Ret(Err("TypeError"), 0)
        ELSE decodeValueFromLines(scanResult.lines, resolvedOptions)
        : resolvedOptions \in {[indent |-> DEFAULT_INDENT_SIZE,
                                strict |-> options.strict]},
          scanResult \in {toParsedLines(toonStr, DEFAULT_INDENT_SIZE,
                                        options.strict)} })

(***************************************************************************)
(* Inputs: host values                                                     *)
(***************************************************************************)
MaxLen == 2
MaxStrLen == 2

SeqsUpTo(S, n) == UNION {[1..k -> S] : k \in 0..n}

Field(k, v) == [k |-> k, v |-> v]

Keys == {<<"a">>, <<"b">>}
\* the key sequences of an object: distinct keys
KeySeqs(n) ==
  {ks \in SeqsUpTo(Keys, n) : \A i, j \in 1..Len(ks) : i # j => ks[i] # ks[j]}

ArraysOf(S, n) == {Arr(a) : a \in SeqsUpTo(S, n)}
ObjectsOf(S, n) ==
  UNION {{Obj([i \in 1..Len(ks) |-> Field(ks[i], vs[i])]) :
            vs \in [1..Len(ks) -> S]} : ks \in KeySeqs(n)}

One == Num(1, 0)
StrA == Str(<<"a">>)
LeafPrims == {One, StrA}

\* no, one or two members
Kids(S) == {<<>>} \cup {<<x>> : x \in S} \cup {<<x, y>> : x, y \in S}

\* containers of leaves, containers of one or two of those, and one more
\* level around each
Level1 == ArraysOf(LeafPrims, MaxLen) \cup ObjectsOf(LeafPrims, MaxLen)
Level2 ==
  {Arr(a) : a \in Kids(LeafPrims \cup Level1)}
    \cup {Obj(<<Field(<<"a">>, x)>>) : x \in Level1}
    \cup {Obj(<<Field(k[1], x), Field(k[2], y)>>) :
             k \in {<<<<"a">>, <<"b">>>>, <<<<"b">>, <<"a">>>>},
             x \in LeafPrims \cup Level1, y \in LeafPrims \cup Level1}
Level3 == {Arr(<<x>>) : x \in Level2} \cup {Obj(<<Field(<<"a">>, x)>>) : x \in Level2}

\* the primitives, and the host values that normalize to one
HostPrims ==
  {Null, Bool(TRUE), Bool(FALSE), Num(0, 0), Num(-1, 0), Num(15, -1), Num(1, 21),
   Num(12, 1), NegZero, NonFinite, Undefined}

Alphabet == {"a", "1", "0", ".", "+", "-", "e", ":", ",", " ", "\"", "\\"}
\* the characters of the syntax that are not in the alphabet
Marks == {"|", "\n", "\r", "\t", "[", "]", "{", "}", "#"}
Strings ==
  {Str(s) : s \in SeqsUpTo(Alphabet, MaxStrLen)}
    \cup UNION {{Str(<<c>>), Str(<<"a", c>>), Str(<<c, "a">>)} : c \in Marks}
    \cup {Str(TRUE_LITERAL), Str(NULL_LITERAL), Str(<<"1", ".", "e", "1">>)}

\* a primitive p in each position a primitive can take
Positions(p) ==
  {p,
   Obj(<<Field(<<"a">>, p)>>),
   Obj(<<Field(<<"a">>, One), Field(<<"b">>, p)>>),
   Arr(<<p>>),
   Arr(<<p, StrA>>),
   Arr(<<One, p>>),
   Arr(<<p, Arr(<<One>>)>>),
   Arr(<<Obj(<<Field(<<"a">>, p)>>)>>),
   Arr(<<Obj(<<Field(<<"a">>, p), Field(<<"b">>, One)>>)>>),
   Arr(<<Obj(<<Field(<<"a">>, One), Field(<<"b">>, p)>>),
         Obj(<<Field(<<"a">>, p), Field(<<"b">>, StrA)>>)>>)}

\* keys that need quotes, the empty key, an array-index key
OddKeys == {<<>>, <<"a", " ", "b">>, <<"1">>, <<"a", ":">>, <<"a", "[">>, <<"-">>,
            <<"a", ".", "b">>, <<"_">>, <<"a", ",", "b">>, <<"a", "}">>}
KeyedValues ==
  UNION {{Obj(<<Field(k, x)>>),
          Arr(<<Obj(<<Field(k, x)>>)>>),
          Obj(<<Field(<<"a">>, One), Field(k, x)>>)} :
         k \in OddKeys, x \in LeafPrims \cup Level1}

TreeValues ==
  Level1 \cup Level2 \cup Level3 \cup KeyedValues
    \cup UNION {Positions(p) : p \in HostPrims \cup Strings}

\* the values serialized with the tab and the pipe delimiter too
DelimitedValues ==
  Level1 \cup UNION {Positions(p) : p \in {One, Str(<<"a", ",">>), Str(<<"a", "|">>),
                                            Str(<<"a", "\t">>), Str(<<"|">>)}}

Delimiters == {COMMA, TAB, PIPE}

Options(d, strict) == [delimiter |-> d, strict |-> strict]
\* deserialize's strict when the caller gives none
DEFAULT_STRICT == FALSE
Tree(v) == [h |-> <<>>, root |-> v]

NoText == [t |-> "notext"]
Text(s) == [t |-> "text", s |-> s]

(***************************************************************************)
(* The calls                                                               *)
(***************************************************************************)
\* serialize with the normalized copy written over its input
SerializeInPlace ==
  /\ pc = "value"
  /\ txt' = serialize(val.h, val.root, opt)
  /\ pc' = IF IsErr(txt') THEN "failed" ELSE "text"
  /\ val' = IF IsErr(txt') THEN val
            ELSE [val EXCEPT !.root = normalizeValue(val.h, val.root)]
  /\ UNCHANGED <<opt, scan, res, cursor>>

\* serialize(val, opt)
Serialize ==
  /\ pc = "value"
  /\ txt' = serialize(val.h, val.root, opt)
  /\ pc' = IF IsErr(txt') THEN "failed" ELSE "text"
  /\ UNCHANGED <<val, opt, scan, res, cursor>>

\* deserialize(txt, opt); scan is what its toParsedLines call returned
Deserialize ==
  /\ pc = "text"
  /\ scan' = toParsedLines(txt.s, DEFAULT_INDENT_SIZE, opt.strict)
  /\ \E r \in {deserialize(txt.s, opt)} : res' = r.v /\ cursor' = r.idx
  /\ pc' = "done"
  /\ UNCHANGED <<val, opt, txt>>

\* serialize a value and deserialize the text, as a caller's round trip does
Init ==
  /\ pc = "value"
  /\ \/ val \in {Tree(v) : v \in TreeValues}
          /\ opt \in {Options(DEFAULT_DELIMITER, s) : s \in BOOLEAN}
     \/ val \in {Tree(v) : v \in DelimitedValues}
          /\ opt \in {Options(d, s) : d \in {TAB, PIPE}, s \in BOOLEAN}
  /\ txt = NoText
  /\ scan = None
  /\ res = None
  /\ cursor = 0

Next == Serialize \/ Deserialize

Spec == Init /\ [][Next]_vars

(***************************************************************************)
(* Round trips                                                             *)
(***************************************************************************)
\* equality of JSON values: arrays by position, objects by key
RECURSIVE JsonEq(_, _)
JsonEq(x, y) ==
  IF x.t # y.t THEN FALSE
  ELSE IF x.t = "arr"
    THEN /\ Len(x.a) = Len(y.a)
         /\ \A i \in 1..Len(x.a) : JsonEq(x.a[i], y.a[i])
  ELSE IF x.t = "obj"
    THEN /\ Len(x.o) = Len(y.o)
         /\ \A i \in 1..Len(x.o) :
              HasKey(y.o, x.o[i].k) /\ JsonEq(x.o[i].v, ObjGet(y.o, x.o[i].k))
  ELSE x = y

\* every object of x has, at the same place in y, an object with the same
\* key sequence
RECURSIVE SameKeyOrder(_, _)
SameKeyOrder(x, y) ==
  IF x.t = "arr"
    THEN /\ y.t = "arr"
         /\ Len(x.a) = Len(y.a)
         /\ \A i \in 1..Len(x.a) : SameKeyOrder(x.a[i], y.a[i])
  ELSE IF x.t = "obj"
    THEN /\ y.t = "obj"
         /\ ObjKeys(x.o) = ObjKeys(y.o)
         /\ \A i \in 1..Len(x.o) : SameKeyOrder(x.o[i].v, y.o[i].v)
  ELSE TRUE

\* the normalized form of the value given to serialize
Normalized == normalizeValue(val.h, val.root)

\* deserialize(serialize(v, options), options) for a tree value v
RoundTrip(v, options) ==
  LET text == serialize(<<>>, v, options)
  IN IF IsErr(text) THEN text ELSE deserialize(text.s, options).v

\* C1: for every value whose normalized form is a JSON value, deserializing
\* the text serialize produced under the default options returns a value
\* equal to the normalized value.
RoundTripLaw ==
  (pc = "done" /\ opt = Options(DEFAULT_DELIMITER, DEFAULT_STRICT))
    => JsonEq(res, Normalized)

\* C2: after a round trip that returns the value, every object anywhere
\* inside it, the elements of arrays of objects included, has the key
\* sequence it had in the value given to serialize.
KeyOrderPreserved ==
  (pc = "done" /\ JsonEq(res, Normalized)) => SameKeyOrder(Normalized, res)

\* the array is one encodeArray emits in tabular form
EmittedTabular(value) ==
  /\ isJsonArray(value)
  /\ isArrayOfObjects(value)
  /\ extractTabularHeader(value.a) # NoFields

\* C3: an array emitted in tabular form round-trips to an equal array of
\* objects, also when a cell is a string with a colon or the delimiter in it
\* and when there is one column.
TabularRoundTrip ==
  (pc = "done" /\ EmittedTabular(Normalized)) => JsonEq(res, Normalized)

EmptyValues == {Arr(<<>>), Obj(<<>>), Str(<<>>)}
EmptyPositions ==
  UNION {{e,
          Obj(<<Field(<<"a">>, e)>>),
          Arr(<<e>>),
          Arr(<<e, One>>),
          Arr(<<Obj(<<Field(<<"a">>, e)>>)>>)} : e \in EmptyValues}

\* C4: an empty array, an empty object and the empty string round-trip to
\* themselves as the root, as a member value, as an inline or list element
\* and as a tabular cell.
EmptiesRoundTrip ==
  (pc = "done" /\ opt.delimiter = DEFAULT_DELIMITER /\ val.root \in EmptyPositions)
    => JsonEq(res, Normalized)

\* C5: a value that round-trips with the comma round-trips with the tab and
\* with the pipe too: the header's delimiter hint is resolved and the same
\* delimiter splits inline values, rows and field lists.
DelimiterRoundTrip ==
  (/\ pc = "done"
   /\ opt.delimiter \in {TAB, PIPE}
   /\ JsonEq(RoundTrip(val.root, Options(COMMA, opt.strict)), Normalized))
    => JsonEq(res, Normalized)

\* a string as a member value, as an inline element, as a tabular cell
StringPositions(s) ==
  {Obj(<<Field(<<"a">>, s)>>),
   Arr(<<s>>),
   Arr(<<One, s>>),
   Arr(<<Obj(<<Field(<<"a">>, One), Field(<<"b">>, s)>>)>>)}

\* C6: a string emitted as a token, quoted or not, is read back as the same
\* string, never as a number, a boolean, null or another string, as a
\* member value, as an inline array element and as a tabular cell.
QuoteNecessity ==
  (/\ pc = "done"
   /\ opt.delimiter = DEFAULT_DELIMITER
   /\ \E s \in Strings : val.root \in StringPositions(s))
    => res = val.root

(***************************************************************************)
(* Values with shared and cyclic containers                                *)
(***************************************************************************)
MaxCells == 2

\* a cell with the children kids, as an array or as an object
Cell(isArray, kids) ==
  IF isArray THEN Arr(kids)
  ELSE Obj([i \in 1..Len(kids) |-> Field(IF i = 1 THEN <<"a">> ELSE <<"b">>, kids[i])])

Heaps ==
  UNION {[1..MaxCells ->
            {Cell(isArray, kids) :
               kids \in Kids({One} \cup {Ref(j) : j \in 1..MaxCells})}] :
         isArray \in BOOLEAN}

\* the root is a heap cell, or a container of its own that names one twice
HeapValues ==
  {[h |-> h, root |-> r] :
     h \in Heaps,
     r \in {Ref(1), Arr(<<Ref(1), Ref(1)>>),
            Obj(<<Field(<<"a">>, Ref(1)), Field(<<"b">>, Ref(MaxCells))>>)}}

\* the heap cells a value names, outside the heap
RECURSIVE RefsIn(_)
RefsIn(value) ==
  IF value.t = "ref" THEN {value.id}
  ELSE IF value.t = "arr" THEN UNION {RefsIn(value.a[i]) : i \in 1..Len(value.a)}
  ELSE IF value.t = "obj" THEN UNION {RefsIn(value.o[i].v) : i \in 1..Len(value.o)}
  ELSE {}

\* the cells reachable from the cells S in no step or more
RECURSIVE ReachableFrom(_, _)
ReachableFrom(h, S) ==
  LET T == S \cup UNION {RefsIn(h[i]) : i \in S}
  IN IF T = S THEN S ELSE ReachableFrom(h, T)

\* cell i reaches itself in one step or more
ReachesItself(h, i) == i \in ReachableFrom(h, RefsIn(h[i]))

\* some container reachable from the value reaches itself
IsCyclic(v) ==
  \E i \in ReachableFrom(v.h, RefsIn(v.root)) : ReachesItself(v.h, i)

InitCycle ==
  /\ pc = "value"
  /\ val \in HeapValues
  /\ opt = Options(DEFAULT_DELIMITER, TRUE)
  /\ txt = NoText
  /\ scan = None
  /\ res = None
  /\ cursor = 0

SpecCycle == InitCycle /\ [][Next]_vars

SharedSerialized ==
  /\ pc = "text"
  /\ \E i \in 1..Len(val.h) : val.h[1] = Arr(<<Ref(i), Ref(i)>>) /\ i # 1
  /\ val.root = Ref(1)

(***************************************************************************)
(* Documents: an array header and the items under it                       *)
(***************************************************************************)
MaxCount == 2

\* [form, n, k, keyed]: a header that declares n items, k items in the
\* form, at the root or as the value of the key a
ArrayDocs ==
  [form : {"inline", "tabular", "list"}, n : 1..MaxCount, k : 0..(MaxCount + 1),
   keyed : BOOLEAN]

HeaderLine(d) ==
  (IF d.keyed THEN <<"a">> ELSE <<>>)
    \o <<OPEN_BRACKET>> \o NatToDigits(d.n) \o <<CLOSE_BRACKET>>
    \o (IF d.form = "tabular" THEN <<OPEN_BRACE, "a", CLOSE_BRACE>> ELSE <<>>)
    \o <<COLON>>

ArrayDocLines(d) ==
  IF d.form = "inline"
  THEN <<HeaderLine(d)
           \o (IF d.k = 0 THEN <<>>
               ELSE <<SPACE>> \o Join([i \in 1..d.k |-> <<"1">>], <<COMMA>>))>>
  ELSE <<HeaderLine(d)>>
         \o [i \in 1..d.k |->
               <<SPACE, SPACE>>
                 \o (IF d.form = "list" THEN LIST_ITEM_PREFIX ELSE <<>>) \o <<"1">>]

InitText ==
  /\ pc = "text"
  /\ val \in ArrayDocs
  /\ opt \in {Options(DEFAULT_DELIMITER, s) : s \in BOOLEAN}
  /\ txt = Text(Join(ArrayDocLines(val), <<NEWLINE>>))
  /\ scan = None
  /\ res = None
  /\ cursor = 0

NextText == Deserialize

SpecText == InitText /\ [][NextText]_vars

\* C8: in strict mode a document with fewer or with more items than its
\* header declares makes deserialize throw instead of returning a value, in
\* the inline, the tabular and the list form.
StrictCountAssertion ==
  (pc = "done" /\ opt.strict /\ val.k # val.n) => IsErr(res)

(***************************************************************************)
(* Documents: lines of indentation and content                             *)
(***************************************************************************)
MaxIndent == 4
MaxLines == 2

\* runs of spaces, and a tab with at most one space before and after it
Indents ==
  {Repeat(<<SPACE>>, n) : n \in 0..MaxIndent}
    \cup {Repeat(<<SPACE>>, n) \o <<TAB>> \o Repeat(<<SPACE>>, m) : n, m \in 0..1}

\* nothing, a carriage return, a key with its value
Contents == {<<>>, <<CARRIAGE_RETURN>>, <<"a", COLON, SPACE, "1">>}

DocLine(indent, content) == [indent |-> indent, content |-> content]
LineDocs ==
  UNION {[1..n -> {DocLine(i, c) : i \in Indents, c \in Contents}] : n \in 1..MaxLines}

LineDocText(d) == Join([i \in 1..Len(d) |-> d[i].indent \o d[i].content], <<NEWLINE>>)

InitLines ==
  /\ pc = "text"
  /\ val \in LineDocs
  /\ opt \in {Options(DEFAULT_DELIMITER, s) : s \in BOOLEAN}
  /\ txt = Text(LineDocText(val))
  /\ scan = None
  /\ res = None
  /\ cursor = 0

SpecLines == InitLines /\ [][NextText]_vars

\* the line has a character that is no white space
NonBlank(l) == \E i \in 1..Len(l.content) : ~IsWhiteSpace(l.content[i])
\* the spaces the line starts with
LeadingSpaces(l) ==
  CHOOSE n \in 0..Len(l.indent) :
    /\ \A i \in 1..n : l.indent[i] = SPACE
    /\ n < Len(l.indent) => l.indent[n + 1] # SPACE
BadIndent(l) ==
  Includes(l.indent, TAB) \/ LeadingSpaces(l) % DEFAULT_INDENT_SIZE # 0
NonBlankLines(d) == SelectSeq(d, NonBlank)

OnlyWhiteSpace(s) == \A i \in 1..Len(s) : IsWhiteSpace(s[i])

PlainDocs ==
  {<<<<"i", "n", "v", "a", "l", "i", "d", " ", "t", "o", "o", "n">>>>,
   <<<<"a", ":", " ", "1">>>>,
   <<<<"a", ":">>, <<" ", " ", "b", ":", " ", "a">>>>,
   <<<<"[", "2", "]", ":", " ", "1", ",", "a">>>>,
   <<<<"[", "1", "]", "{", "a", "}", ":">>, <<" ", " ", "1">>>>,
   <<<<"a", "[", "2", "]", ":">>, <<" ", " ", "-", " ", "1">>, <<" ", " ",
     "-", " ", "b", ":", " ", "1">>>>,
   <<<<"\"", "a", " ", "b", "\"", ":", " ", "\"", "x", "\"">>>>,
   <<<<"a", ":">>, <<" ", " ", " ", "b", ":", " ", "1">>>>}

\* a quoted token without its closing quote, or with text after it: as the
\* root, a member value, a key, an inline value, a list item and a row
QuoteDocs ==
  {<<<<"\"", "a">>>>,
   <<<<"a", ":", " ", "\"", "a">>>>,
   <<<<"\"", "a", ":", " ", "1">>, <<"b", ":", " ", "1">>>>,
   <<<<"[", "1", "]", ":", " ", "\"", "a">>>>,
   <<<<"[", "1", "]", ":">>, <<" ", " ", "-", " ", "\"", "a">>>>,
   <<<<"[", "1", "]", "{", "a", "}", ":">>, <<" ", " ", "\"", "a">>>>,
   <<<<"\"", "a", "\"", "1">>>>,
   <<<<"a", ":", " ", "\"", "a", "\"", "1">>>>,
   <<<<"\"", "a", "\"", "1", ":", " ", "1">>, <<"b", ":", " ", "1">>>>,
   <<<<"[", "1", "]", ":", " ", "\"", "a", "\"", "1">>>>,
   <<<<"[", "1", "]", "{", "a", ",", "b", "}", ":">>, <<" ", " ", "\"",
     "a", "\"", "1", ",", "1">>>>,
   <<<<"[", "1", "]", "{", "a", "}", ":">>, <<" ", " ", "\"", "a", ":">>>>}

\* an escape that is none of the five of unescapeString in a quoted token, or
\* a backslash at its end
EscapeDocs ==
  {<<<<"\"", "\\", "a", "\"">>>>,
   <<<<"a", ":", " ", "\"", "\\", "a", "\"">>>>,
   <<<<"\"", "a", "\\">>>>,
   <<<<"a", ":", " ", "\"", "a", "\\", "\"">>>>,
   <<<<"\"", "\\", "a", "\"", ":", " ", "1">>>>,
   <<<<"[", "1", "]", ":", " ", "\"", "\\", "0", "\"">>>>,
   <<<<"[", "1", "]", "{", "\"", "\\", "a", "\"", "}", ":">>, <<" ", " ",
     "1">>>>}

\* a bracket segment in header position whose interior is not [#]count[hint]
HeaderDocs ==
  {<<<<"a", "[", "x", "]", ":", " ", "1">>>>,
   <<<<"[", "x", "]", ":", " ", "1">>>>,
   <<<<"a", "[", "]", ":", " ", "1">>>>,
   <<<<"a", "[", "#", "]", ":", " ", "1">>>>,
   <<<<"a", "[", "1", "x", "]", ":", " ", "1">>>>,
   <<<<"a", "[", "1", ".", "5", "]", ":", " ", "1">>>>,
   <<<<"[", "1", "|", "x", "]", ":", " ", "1">>>>,
   <<<<"[", "-", "1", "]", ":", " ", "1">>>>,
   <<<<"a", "[", "x", "]", ":">>, <<" ", " ", "-", " ", "1">>>>}


MaxRows == 2
\* the rows of cells: one empty cell, before or after a cell with text
Rows == {<<<<"x">>, <<>>>>, <<<<>>, <<"x">>>>}

\* a bare [N] line, a line of column names and N lines of cells: [cols, rows]
Tables ==
  {[cols |-> <<<<"a">>, <<"b">>>>, rows |-> rows] :
     rows \in UNION {[1..n -> Rows] : n \in 1..MaxRows}}
    \cup {[cols |-> <<<<"f", "i", "r", "s", "t">>, <<"m", "i", "d", "d", "l", "e">>, <<"l", "a", "s", "t">>>>,
           rows |-> <<<<<<"J", "o", "h", "n">>, <<>>, <<"D", "o", "e">>>>,
                      <<<<"J", "a", "n", "e">>, <<"M">>, <<"S", "m", "i", "t", "h">>>>>>]}

TableLines(t) ==
  <<<<OPEN_BRACKET>> \o NatToDigits(Len(t.rows)) \o <<CLOSE_BRACKET>>,
    <<SPACE, SPACE>> \o Join(t.cols, <<COMMA>>)>>
    \o [r \in 1..Len(t.rows) |-> <<SPACE, SPACE>> \o Join(t.rows[r], <<COMMA>>)]

\* the objects that bind the column names to the cells of each row
TableValue(t) ==
  Arr([r \in 1..Len(t.rows) |->
         Obj([j \in 1..Len(t.cols) |-> Field(t.cols[j], Str(t.rows[r][j]))])])

\* unquoted keys outside the pattern [A-Za-z_][A-Za-z0-9_.]*
PatternBreakers == {<<"a", " ", "b">>, <<"1", "x">>, <<"a", "-", "b">>}
\* a member of the root object under such a key, unquoted
KeyDocs == {<<k \o <<COLON, SPACE, "1">>>> : k \in PatternBreakers}

\* tabular rows with fewer cells than the header has fields
ShortRowDocs ==
  {<<<<"[", "1", "]", "{", "a", ",", "b", "}", ":">>, <<" ", " ", "1">>>>,
   <<<<"a", "[", "2", "]", "{", "a", ",", "b", "}", ":">>, <<" ", " ", "x", ",", "1">>,
     <<" ", " ", "x">>>>}

DocCase(kind, lines, table) == [kind |-> kind, lines |-> lines, table |-> table]
DocCases ==
  {DocCase("plain", l, None) : l \in PlainDocs}
    \cup {DocCase("quote", l, None) : l \in QuoteDocs}
    \cup {DocCase("escape", l, None) : l \in EscapeDocs}
    \cup {DocCase("header", l, None) : l \in HeaderDocs}
    \cup {DocCase("key", l, None) : l \in KeyDocs}
    \cup {DocCase("short", l, None) : l \in ShortRowDocs}
    \cup {DocCase("table", TableLines(t), t) : t \in Tables}

MaxBlanks == 2
BlankLines == {<<>>, <<SPACE>>, <<TAB>>, <<SPACE, CARRIAGE_RETURN>>}

\* the lines with the lines blanks put in after the first at lines
WithBlanks(lines, at, blanks) ==
  SubSeq(lines, 1, at) \o blanks \o SubSeq(lines, at + 1, Len(lines))

\* a document and the blank lines put into it: none, or some at one place
BlankedDocs ==
  {[doc |-> d, at |-> 0, blanks |-> <<>>] : d \in DocCases}
    \cup UNION {{[doc |-> d, at |-> at, blanks |-> b] :
                   at \in 0..Len(d.lines),
                   b \in UNION {[1..n -> BlankLines] : n \in 1..MaxBlanks}} :
                d \in DocCases}

InitDocs ==
  /\ pc = "text"
  /\ val \in BlankedDocs
  /\ opt \in {Options(DEFAULT_DELIMITER, s) : s \in BOOLEAN}
  /\ txt = Text(Join(WithBlanks(val.doc.lines, val.at, val.blanks), <<NEWLINE>>))
  /\ scan = None
  /\ res = None
  /\ cursor = 0

SpecDocs == InitDocs /\ [][NextText]_vars

\* the class of decode.ts that extends Error
DeserializeError == "DeserializeError"

InvalidToon == <<"i", "n", "v", "a", "l", "i", "d", " ", "t", "o", "o", "n">>

\* C11: every exception deserialize throws is a DeserializeError, and
\* deserialize of the text "invalid toon" throws one.
FailuresAreDeserializeErrors ==
  pc = "done" =>
    /\ IsErr(res) => res.kind = DeserializeError
    /\ txt.s = InvalidToon => IsErr(res)

\* C12: a document of a bare [N] line, a line of column names at depth 1 and
\* N lines of cells decodes to the array of the N objects that bind the
\* column names to the cells of each row by position, an empty cell to the
\* empty string.
BareTableDecodes ==
  (pc = "done" /\ val.doc.kind = "table") => res = TableValue(val.doc.table)

\* C13: a document with a malformed quoted token, a malformed array header
\* or a disallowed escape makes deserialize raise a syntax error, in strict
\* and in non-strict mode.
MalformedIsSyntaxError ==
  (pc = "done" /\ val.doc.kind \in {"quote", "escape", "header"}) =>
    res = Err("SyntaxError")

\* C16: inserting empty or whitespace-only lines at the start, at the end or
\* between two lines of a document changes neither what deserialize returns
\* nor whether it raises, in strict and in non-strict mode: the result for
\* the text with the blank lines is the result for the document itself.
BlankLinesInsignificant ==
  pc = "done" => res = deserialize(Join(val.doc.lines, <<NEWLINE>>), opt).v

BlankLinesSkipped ==
  /\ pc = "done"
  /\ opt.strict
  /\ val.at > 0
  /\ val.at < Len(val.doc.lines)
  /\ \E i \in 1..Len(val.blanks) : val.blanks[i] = <<TAB>>
  /\ \E i \in 1..Len(val.blanks) : val.blanks[i] = <<SPACE>>
  /\ res.t = "obj"

(***************************************************************************)
(* Shapes: arrays of up to two members of every kind, under every option   *)
(***************************************************************************)
EmptyObj == Obj(<<>>)
ArrOne == Arr(<<One>>)
\* the members of an array: primitives, objects with primitive, array and
\* object values, and arrays of primitives, of arrays and of objects
ShapeMembers ==
  LeafPrims
    \cup ObjectsOf(LeafPrims \cup {ArrOne}, MaxLen)
    \cup {EmptyObj, Obj(<<Field(<<"a">>, Obj(<<Field(<<"b">>, One)>>))>>),
          Obj(<<Field(<<"a">>, EmptyObj), Field(<<"b">>, One)>>)}
    \cup {Arr(<<>>), ArrOne, Arr(<<ArrOne>>), Arr(<<Obj(<<Field(<<"a">>, One)>>)>>)}
ShapeValues == {Arr(a) : a \in Kids(ShapeMembers)}

\* EncodeOptions of types.ts: the delimiter and the three switches
EncodeOptionSets ==
  [delimiter : Delimiters, pretty : BOOLEAN, strictArrays : BOOLEAN,
   minTabularLength : {1, 3}]
\* the options with the fallbacks of getEncodeOptions for the three switches
WithDefaultSwitches(options) ==
  [delimiter |-> options.delimiter, pretty |-> TRUE, strictArrays |-> FALSE,
   minTabularLength |-> 2]

InitShapes ==
  /\ pc = "value"
  /\ val \in {Tree(v) : v \in ShapeValues}
  /\ opt \in EncodeOptionSets
  /\ txt = NoText
  /\ scan = None
  /\ res = None
  /\ cursor = 0

NextEmit == Serialize

SpecShapes == InitShapes /\ [][NextEmit]_vars

RECURSIVE InDataModel(_)
InDataModel(x) ==
  IF x.t = "arr" THEN \A i \in 1..Len(x.a) : InDataModel(x.a[i])
  ELSE IF x.t = "obj" THEN \A i \in 1..Len(x.o) : InDataModel(x.o[i].v)
  ELSE x.t \in {"null", "bool", "num", "str"}

Eligible(a) ==
  /\ Len(a) > 0
  /\ \A i \in 1..Len(a) : a[i].t = "obj"
  /\ Len(a[1].o) > 0
  /\ \A i \in 1..Len(a) :
       /\ Len(a[i].o) = Len(a[1].o)
       /\ \A j \in 1..Len(a[1].o) :
            /\ HasKey(a[i].o, a[1].o[j].k)
            /\ ObjGet(a[i].o, a[1].o[j].k).t \in {"null", "bool", "num", "str"}

\* the header of the tabular form of a: the count and the keys of the first
\* element in their order
TabularHeader(a, d) ==
  formatHeader(Len(a), NoKey, [j \in 1..Len(a[1].o) |-> a[1].o[j].k], d, FALSE)

\* the root array is written in the tabular form
RootIsTabular ==
  /\ Len(val.root.a) > 0
  /\ val.root.a[1].t = "obj"
  /\ Split(txt.s, NEWLINE)[1] = TabularHeader(val.root.a, opt.delimiter)

\* for the array at the root alone the classification holds: it is written in
\* the tabular form exactly when it qualifies
RootShapeClassification ==
  pc = "text" => (Eligible(val.root.a) <=> RootIsTabular)

\* C18: serialize writes an array in the tabular form, the columns in the
\* first element's key order, exactly when the array qualifies; this for the
\* array at the root and for every array that is an element of it.
ShapeClassification ==
  pc = "text" =>
    /\ Eligible(val.root.a) <=> RootIsTabular
    /\ \A i \in 1..Len(val.root.a) :
         (val.root.a[i].t = "arr" /\ Eligible(val.root.a[i].a)) =>
           \E n \in 1..Len(Split(txt.s, NEWLINE)) :
             Split(txt.s, NEWLINE)[n]
               = <<SPACE, SPACE>> \o LIST_ITEM_PREFIX
                   \o TabularHeader(val.root.a[i].a, opt.delimiter)

\* the items the text has under its first line, the header of the root array:
\* the tokens after the colon when the text is that line alone, or else the
\* lines one level below the header (rows, or list items with what follows
\* them deeper)
BodyItems(lines, d) ==
  IF Len(lines) = 1
  THEN LET inline == Trim(SliceFrom(lines[1], IndexOf(lines[1], COLON, 0) + 1))
       IN IF inline = <<>> THEN 0 ELSE Len(Split(inline, d))
  ELSE Cardinality({n \in 2..Len(lines) :
                      RunEnd(lines[n], 0, {SPACE}) = DEFAULT_INDENT_SIZE})

\* C19: the count in the brackets of the header serialize writes for the root
\* array is the number of its elements, and the body under the header has
\* exactly that many items, one for each element whatever its kind.
HeaderCountMatchesBody ==
  pc = "text" =>
    LET lines == Split(txt.s, NEWLINE)
        bare == formatHeader(Len(val.root.a), NoKey, NoFields, opt.delimiter, FALSE)
    IN /\ StartsWith(lines[1], Slice(bare, 0, Len(bare) - 1))
       /\ BodyItems(lines, opt.delimiter) = Len(val.root.a)

(***************************************************************************)
(* List items: objects whose first value is of every kind                  *)
(***************************************************************************)
ObjA(v) == Obj(<<Field(<<"a">>, v)>>)
\* a primitive, a non-empty object, an inline array, a tabular array and the
\* list arrays of objects, of arrays and of both
FirstValues ==
  {One, ObjA(One), Obj(<<Field(<<"b">>, One), Field(<<"a">>, StrA)>>),
   ArrOne, Arr(<<ObjA(One)>>), Arr(<<ObjA(ArrOne)>>), Arr(<<ArrOne>>),
   Arr(<<One, ArrOne>>)}
\* the values of the key after the first, when there is one
RestValues == {One, ArrOne, ObjA(One)}
ItemObjects ==
  {ObjA(f) : f \in FirstValues}
    \cup {Obj(<<Field(<<"a">>, f), Field(<<"b">>, r)>>) :
            f \in FirstValues, r \in RestValues}
ItemValues == {Arr(a) : a \in Kids(ItemObjects) \ {<<>>}}

InitItems ==
  /\ pc = "value"
  /\ val \in {Tree(v) : v \in ItemValues}
  /\ opt \in {Options(DEFAULT_DELIMITER, s) : s \in BOOLEAN}
  /\ txt = NoText
  /\ scan = None
  /\ res = None
  /\ cursor = 0

SpecItems == InitItems /\ [][Next]_vars

\* C20: an array written in the list form, each of its objects as a list
\* item whose first value is a primitive, a non-empty object, an inline
\* array, a tabular array or a list array, is read back by deserialize as an
\* array of objects equal to the ones serialized.
ListItemObjectsRoundTrip ==
  (pc = "done" /\ ~Eligible(val.root.a)) => JsonEq(res, val.root)

\* C21: the header of an array has its key in front of the bracket exactly
\* when the array is the value of a named key: every array that is the value
\* of a member of the root object, the empty key included, has a line that
\* begins with the encoded key and the bracket, and the header of a root array
\* begins with the bracket.
KeyedArrayHeaders ==
  pc = "text" =>
    /\ Normalized.t = "arr" => StartsWith(txt.s, <<OPEN_BRACKET>>)
    /\ Normalized.t = "obj" =>
         \A i \in 1..Len(Normalized.o) :
           Normalized.o[i].v.t = "arr" =>
             \E n \in 1..Len(Split(txt.s, NEWLINE)) :
               StartsWith(Split(txt.s, NEWLINE)[n],
                          encodeKey(Normalized.o[i].k) \o <<OPEN_BRACKET>>)

\* C22: an object that binds a key that is no valid unquoted key to an array
\* is read back from its text as an object that binds the same key to the
\* same array.
QuotedKeyArraysRoundTrip ==
  (/\ pc = "done"
   /\ Normalized.t = "obj"
   /\ Len(Normalized.o) = 1
   /\ ~isValidUnquotedKey(Normalized.o[1].k)
   /\ Normalized.o[1].v.t = "arr")
    => JsonEq(res, Normalized)

\* C23: a line whose bracket interior is not an optional '#', a non-negative
\* decimal integer and an optional delimiter hint is never accepted as a
\* header: for the first line of each document with such an interior, which
\* deserialize has given to the header parser, the parser returns no header.
HeaderCountsAreNatural ==
  (pc = "done" /\ val.doc.kind = "header") =>
    parseArrayHeaderLine(val.doc.lines[1], DEFAULT_DELIMITER) = None

\* C24: a member whose unquoted key is outside the pattern
\* [A-Za-z_][A-Za-z0-9_.]* is rejected with an error in strict mode and read
\* as a member under that key in non-strict mode.
PatternCheckedInStrict ==
  (pc = "done" /\ val.doc.kind = "key") =>
    IF opt.strict THEN IsErr(res)
    ELSE \E k \in PatternBreakers :
           /\ val.doc.lines = <<k \o <<COLON, SPACE, "1">>>>
           /\ res = Obj(<<Field(k, One)>>)

(***************************************************************************)
(* Escapes: a string is quoted with its escapes, and the token is parsed   *)
(***************************************************************************)
MaxEscLen == 3
\* the five characters that are escaped, and two that are not, of which n is
\* the letter of an escape
EscAlphabet == {BACKSLASH, DOUBLE_QUOTE, NEWLINE, CARRIAGE_RETURN, TAB, "a", "n"}
EscStrings == SeqsUpTo(EscAlphabet, MaxEscLen)

\* the quoted form of encodeStringLiteral: '"' + escapeString(val) + '"'
EscapeToken ==
  /\ pc = "value"
  /\ txt' = Text(<<DOUBLE_QUOTE>> \o escapeString(val) \o <<DOUBLE_QUOTE>>)
  /\ pc' = "text"
  /\ UNCHANGED <<val, opt, scan, res, cursor>>

\* parseStringLiteral(txt)
ParseToken ==
  /\ pc = "text"
  /\ res' = parseStringLiteral(txt.s)
  /\ pc' = "done"
  /\ UNCHANGED <<val, opt, txt, scan, cursor>>

InitEscapes ==
  /\ pc = "value"
  /\ val \in EscStrings
  /\ opt = Options(DEFAULT_DELIMITER, DEFAULT_STRICT)
  /\ txt = NoText
  /\ scan = None
  /\ res = None
  /\ cursor = 0

NextEscapes == EscapeToken \/ ParseToken

SpecEscapes == InitEscapes /\ [][NextEscapes]_vars

\* C25: for every string, unescaping its escaped form returns the string,
\* the closing quote found in the quoted escaped form is its last character,
\* and parsing the quoted form as a string literal returns the string.
EscapeInverse ==
  /\ unescapeString(escapeString(val)) = val
  /\ pc \in {"text", "done"} =>
       /\ txt.s = <<DOUBLE_QUOTE>> \o escapeString(val) \o <<DOUBLE_QUOTE>>
       /\ findClosingQuote(txt.s, 0) = Len(txt.s) - 1
  /\ pc = "done" => res = val

\* a string of a backslash, a quote and a newline has been quoted and parsed
EscapedAndParsed ==
  /\ pc = "done"
  /\ val = <<BACKSLASH, DOUBLE_QUOTE, NEWLINE>>
  /\ txt.s = <<DOUBLE_QUOTE, BACKSLASH, BACKSLASH, BACKSLASH, DOUBLE_QUOTE,
               BACKSLASH, "n", DOUBLE_QUOTE>>
  /\ res = val

(***************************************************************************)
(* Documents: a tabular or list header and lines of every kind under it    *)
(***************************************************************************)
MaxBody == 3
\* a row, a list item, a member at the depth of the items, a deeper line and
\* a line at the depth of the header
RowLine == <<SPACE, SPACE, "1">>
ItemLine == <<SPACE, SPACE>> \o LIST_ITEM_PREFIX \o <<"1">>
BodyLines ==
  {RowLine, ItemLine, <<SPACE, SPACE, "b", COLON, SPACE, "1">>,
   <<SPACE, SPACE, SPACE, SPACE, "1">>, <<"b", COLON, SPACE, "1">>}

\* [form, n, keyed, body]: a header that declares n items, at the root or as
\* the value of the key a, and the lines after it
BodyDocs ==
  [form : {"tabular", "list"}, n : 0..MaxCount, keyed : BOOLEAN,
   body : SeqsUpTo(BodyLines, MaxBody)]

InitBodies ==
  /\ pc = "text"
  /\ val \in BodyDocs
  /\ opt \in {Options(DEFAULT_DELIMITER, s) : s \in BOOLEAN}
  /\ txt = Text(Join(<<HeaderLine(val)>> \o val.body, <<NEWLINE>>))
  /\ scan = None
  /\ res = None
  /\ cursor = 0

SpecBodies == InitBodies /\ [][NextText]_vars

\* the number of lines at the start of the body that are items of the form
RECURSIVE ItemsAhead(_, _)
ItemsAhead(body, form) ==
  IF body # <<>> /\ Head(body) = (IF form = "tabular" THEN RowLine ELSE ItemLine)
  THEN 1 + ItemsAhead(Tail(body), form)
  ELSE 0

\* the array decoded for the header of the document
DecodedArray == IF val.keyed THEN ObjGet(res.o, <<"a">>) ELSE res

\* C26: under a tabular or list header that declares N items the decoded
\* array has at most N elements in both modes: it has one element for each of
\* the lines at the depth below the header that come first and are of the
\* form's kind (rows that do not start with '- ', or lines that start with
\* '- '), up to N of them; reading stops at the first line that is shallower,
\* deeper or of another kind.  Strict mode raises when they are fewer than N.
BodiesBounded ==
  pc = "done" =>
    IF IsErr(res)
    THEN /\ res = Err("RangeError")
         /\ opt.strict
         /\ ItemsAhead(val.body, val.form) < val.n
    ELSE /\ Len(DecodedArray.a) <= val.n
         /\ DecodedArray
              = Arr([i \in 1..Min(val.n, ItemsAhead(val.body, val.form)) |->
                       IF val.form = "tabular" THEN ObjA(One) ELSE One])

\* two rows are declared; the row after a list item is not read
RowsStopAtItem ==
  /\ pc = "done"
  /\ ~opt.strict
  /\ val.form = "tabular" /\ val.n = 2 /\ ~val.keyed
  /\ val.body = <<RowLine, ItemLine, RowLine>>
  /\ res = Arr(<<ObjA(One)>>)

\* C27: whenever deserialize returns a value, in strict or in non-strict
\* mode, the parser has consumed every non-blank line of the text: the line
\* cursor is at the end of the lines.
NoSilentTruncation ==
  (pc = "done" /\ ~IsErr(res)) => cursor = Len(scan.lines)

\* C28: every value deserialize returns is a value of the JSON data model:
\* no object member and no array element is undefined, in non-strict mode
\* also when a tabular row has fewer cells than the header has fields.
DecodedInDataModel ==
  (pc = "done" /\ ~IsErr(res)) => InDataModel(res)

\* the step by which a call of deserialize ends: the position of the caller
\* moves from the text to the result
CallEnds == pc = "text" /\ pc' = "done"

\* the documents, each with a call of deserialize that is run to its end: the
\* call is synchronous, no other code runs between its start and its return
\* or throw
SpecDocsFair == SpecDocs /\ WF_pc(CallEnds)

\* the options deserialize resolves
ResolvedOptions == [indent |-> DEFAULT_INDENT_SIZE, strict |-> opt.strict]

\* an iteration of the object loop or of the continuation loop of a list
\* item, started at line idx of the scanned lines for an object at depth d,
\* raises or leaves the cursor after idx and not after the last line
PairAdvances(idx, d) ==
  \E kv \in {decodeKeyValuePair(CharAt(scan.lines, idx), scan.lines, idx, d,
                                ResolvedOptions)} :
    IsErr(kv) \/ (kv.idx > idx /\ kv.idx <= Len(scan.lines))

\* an iteration of the list-array loop, started at a line idx that begins
\* with '- ', does the same
ItemAdvances(idx, d) ==
  StartsWith(CharAt(scan.lines, idx).content, LIST_ITEM_PREFIX) =>
    \E item \in {decodeListItem(scan.lines, idx, d, DEFAULT_DELIMITER,
                                ResolvedOptions)} :
      IsErr(item.v) \/ (item.idx > idx /\ item.idx <= Len(scan.lines))

\* the header '[1]{a}:'
OneRowHeader ==
  [key |-> NoKey, length |-> 1, delimiter |-> DEFAULT_DELIMITER,
   fields |-> <<<<"a">>>>, hasLengthMarker |-> FALSE]

\* the tabular-row loop of a table of one row, started at line idx for a
\* table at depth d, raises, or exits without a row and leaves the cursor at
\* idx, or reads one row and leaves the cursor at idx + 1
RowAdvances(idx, d) ==
  \E rows \in {decodeTabularArray(OneRowHeader, scan.lines, idx, d,
                                  ResolvedOptions)} :
    IsErr(rows.v) \/ rows.idx = idx + Len(rows.v.a)

\* what holds of the cursor once deserialize has ended
CursorBounded ==
  (pc = "done" /\ ~IsErr(scan)) =>
    /\ cursor \in 0..Len(scan.lines)
    /\ \A idx \in 0..(Len(scan.lines) - 1), d \in 0..MaxLen :
         PairAdvances(idx, d) /\ ItemAdvances(idx, d) /\ RowAdvances(idx, d)

\* C29: deserialize ends on every text, by returning a value or by raising
\* an error; the index of the line cursor is never below zero or above the
\* number of non-blank lines, and every iteration of the object, list-array,
\* list-item and tabular-row loops, from whatever line it starts, raises,
\* exits the loop or consumes at least one line.
DeserializeTerminates ==
  /\ []CursorBounded
  /\ (pc = "text") ~> (pc = "done" /\ (IsErr(res) \/ cursor <= Len(scan.lines)))

\* a list of two items, one of them an object, has been read to its end
ListReadToEnd ==
  /\ pc = "done"
  /\ res = Obj(<<Field(<<"a">>, Arr(<<One, Obj(<<Field(<<"b">>, One)>>)>>))>>)
  /\ Len(scan.lines) = 3
  /\ cursor = 3

\* C30: strict mode only adds rejections: when deserialize returns a value
\* for a text in strict mode, it returns the same value for that text in
\* non-strict mode.
StrictOnlyRejects ==
  (pc = "done" /\ opt.strict /\ ~IsErr(res)) =>
    deserialize(txt.s, Options(opt.delimiter, FALSE)).v = res

\* a table of one row has been read in strict mode, with the width of the
\* row and the number of rows checked against the header
StrictTableAccepted ==
  /\ pc = "done"
  /\ opt.strict
  /\ val.doc.lines = <<<<"[", "1", "]", "{", "a", "}", ":">>, <<" ", " ", "1">>>>
  /\ res = Arr(<<ObjA(One)>>)

=============================================================================
